---- MODULE Spec2Model ----
(***************************************************************************)
(* Model of the scenario replay engine (src/replay): ReplayEngine,         *)
(* ExecutionContext, ActionDispatcher and ReplayReport.                    *)
(*                                                                         *)
(* One ReplayEngine object is constructed per replay, as                   *)
(* server.replay_scenario does (src/server.py:363-377).  A replay() call   *)
(* is cut into steps at its calls into the device collaborator (dispatch   *)
(* of a tool, screen_on, screenshot), whose outcome is the environment's   *)
(* choice; everything replay() does between two such calls is part of the  *)
(* step.  Every effect on the outside (dispatch calls, sleeps, screen_on,  *)
(* screenshot captures) is appended to log, and so is every call of        *)
(* execute_with_retry.                                                     *)
(*                                                                         *)
(* Wall-clock time is not modelled: start_time, end_time, duration_ms and  *)
(* the report's duration fields are left out.  Sleeps are logged in        *)
(* milliseconds.  speed_multiplier is the rational num/den.  The report's  *)
(* success_rate is in hundredths of a percent.                             *)
(***************************************************************************)
EXTENDS Integers, Sequences, FiniteSets, TLC

VARIABLES
    config,            \* ReplayEngine.config (ReplayConfig)
    device_id,         \* ReplayEngine.device_id
    file,              \* the file at scenario_path, argument of replay()
    camera,            \* whether server.screenshot works during this replay
    tool_values,       \* the values the device tools return when they return
    pc,                \* position of the replay() call
    scenario,          \* local `scenario` of replay(), NoScenario before load
    idx,               \* loop variable `idx` of replay()
    attempt,           \* loop variable `attempt` of execute_with_retry()
    last_error,        \* local `last_error` of execute_with_retry()
    screenshot_before, \* local `screenshot_before` of execute_with_retry()
    scenario_metadata, \* ReplayReport.scenario_metadata
    action_results,    \* ReplayReport.action_results
    global_errors,     \* ReplayReport.global_errors
    returned,          \* the report map replay() returned, NoReport before
    raised,            \* TRUE iff an exception propagated out of replay()
    log,               \* calls made to the collaborators and to time.sleep
    recording_state,   \* server._recording_state
    now,               \* the next reading of datetime.now(), in seconds
    reply              \* what the last call of a recording tool returned

vars == <<config, device_id, file, camera, tool_values, pc, scenario, idx, attempt, last_error,
          screenshot_before, scenario_metadata, action_results, global_errors,
          returned, raised, log, recording_state, now, reply>>

(***************************************************************************)
(* Bounds                                                                  *)
(***************************************************************************)
MaxActions == 2
MaxRetryAttempts == 2
MaxResults == 2
MaxErrors == 2

(***************************************************************************)
(* Values                                                                  *)
(***************************************************************************)
None == "None"
NoScenario == [loaded |-> FALSE]
NoReport == [generated |-> FALSE]

\* dict.get(key, default)
Get(d, k, default) == IF k \in DOMAIN d THEN d[k] ELSE default

\* Python truthiness of the values that occur (None and "" are falsy)
Truthy(v) == v # None /\ v # ""

SettleMs == 1000

ActionStatus ==
    [SUCCESS |-> "success", FAILED |-> "failed",
     SKIPPED |-> "skipped", TIMEOUT |-> "timeout"]

StatusNames == {"SUCCESS", "FAILED", "SKIPPED", "TIMEOUT"}

(***************************************************************************)
(* ReplayConfig                                                            *)
(***************************************************************************)
SpeedMultipliers ==
    {[num |-> 1, den |-> 2], [num |-> 2, den |-> 1]}

RetryDelays == {500}

ReplayConfig ==
    [retry_attempts : 0..MaxRetryAttempts,
     retry_delay_ms : RetryDelays,
     capture_screenshots : BOOLEAN,
     screenshot_on_error : BOOLEAN,
     speed_multiplier : SpeedMultipliers,
     stop_on_error : BOOLEAN,
     wait_for_screen_on : BOOLEAN]

DeviceIds == {None, "emulator-5554"}

(***************************************************************************)
(* ActionDispatcher                                                        *)
(***************************************************************************)
\* the tool names of the registry that the scenarios below use
ToolRegistry == {"click", "screenshot"}

\* `caller` is the caller's map after the call, `copy` is what the tool gets
transform_parameters(tool_name, parameters) ==
    LET renamed ==
            IF tool_name = "screenshot"
               /\ "filepath" \in DOMAIN parameters
               /\ "filename" \notin DOMAIN parameters
            THEN [k \in (DOMAIN parameters \ {"filepath"}) \cup {"filename"} |->
                    IF k = "filename" THEN parameters["filepath"]
                    ELSE parameters[k]]
            ELSE parameters
    IN  [caller |-> renamed, copy |-> renamed]

\* the message of the exception a tool raises on the call-th dispatch of a
\* replay: the device's errors differ from call to call
ToolError(call) == "device error " \o ToString(call)

\* what a tool function can return: True, False when it swallowed its own
\* error, and None
ToolValues == {"True", "False", None}

\* what the tool does on the call-th dispatch of a replay: it returns one of
\* the values of this replay's tools, or it raises an exception whose
\* message is the outcome
ToolOutcomes(call) == tool_values \cup {ToolError(call)}

dispatch(tool_name, parameters, outcome) ==
    IF tool_name \notin ToolRegistry
    THEN [raised |-> TRUE,
          error |-> "Tool '" \o tool_name \o "' not found in registry",
          parameters |-> parameters]
    ELSE LET t == transform_parameters(tool_name, parameters)
         IN  IF outcome \in ToolValues
             THEN [raised |-> FALSE, value |-> outcome, parameters |-> t.caller]
             ELSE [raised |-> TRUE, error |-> outcome,
                   parameters |-> t.caller]

(***************************************************************************)
(* Scenario files                                                          *)
(***************************************************************************)
\* an element of `actions` that is a JSON string, not an object
JsonText(text) == [json_string |-> text]
IsObject(a) == "json_string" \notin DOMAIN a

RecordedActions ==
    {[tool |-> "click", params |-> [selector |-> "Login"]],
     [tool |-> "screenshot", params |-> [filepath |-> "shot.png"],
      delay_before_ms |-> 2000],
     [tool |-> "open_portal", params |-> <<>>, delay_before_ms |-> 0]}

RECURSIVE SeqsUpTo(_, _)
SeqsUpTo(S, n) ==
    IF n = 0 THEN {<<>>}
    ELSE LET shorter == SeqsUpTo(S, n - 1)
         IN  shorter \cup {Append(s, a) : s \in {t \in shorter : Len(t) = n - 1}, a \in S}

ActionLists == SeqsUpTo(RecordedActions, MaxActions)

\* a JSON value under the key `actions`: a list, or something else
JsonList(items) == [is_list |-> TRUE, items |-> items]
JsonNotList == [is_list |-> FALSE, items |-> <<>>]
\* the JSON value null under the key `actions`
JsonNull == [is_list |-> FALSE, items |-> <<>>, null |-> TRUE]

OldShape(actions) ==
    [session_name |-> "login_flow", device_id |-> "emulator-5554",
     actions |-> JsonList(actions)]

NewShape(actions) ==
    [schema_version |-> "1.0",
     metadata |-> [name |-> "login_flow", device |-> [serial |-> "emulator-5554"]],
     actions |-> JsonList(actions)]

\* both shapes normalise to scenarios that replay alike: the longer action
\* lists come in the old shape only
ValidDocuments ==
    {OldShape(a) : a \in ActionLists}
    \cup {NewShape(a) : a \in {b \in ActionLists : Len(b) <= 1}}

InvalidDocuments ==
    {[session_name |-> "login_flow"],
     [device_id |-> "emulator-5554", actions |-> JsonList(<<>>)],
     [schema_version |-> "1.0", metadata |-> [description |-> "no name"],
      actions |-> JsonList(<<>>)],
     [session_name |-> "login_flow", device_id |-> "emulator-5554"],
     [session_name |-> "login_flow", device_id |-> "emulator-5554",
      actions |-> JsonNotList],
     [schema_version |-> "1.0", metadata |-> [name |-> "login_flow"]]}

\* what is at scenario_path: nothing, text that is not JSON, or a document
Files ==
    {[exists |-> FALSE, valid_json |-> FALSE, document |-> <<>>],
     [exists |-> TRUE, valid_json |-> FALSE, document |-> <<>>]}
    \cup {[exists |-> TRUE, valid_json |-> TRUE, document |-> d] :
            d \in ValidDocuments \cup InvalidDocuments}

(***************************************************************************)
(* ReplayEngine.load_scenario                                              *)
(***************************************************************************)
\* an exception of class exc whose str() is msg
Raise(exc, msg) == [raised |-> TRUE, exc |-> exc, error |-> msg]
Return(v) == [raised |-> FALSE, value |-> v]

normalize_new_schema_keeps_first_action(raw_scenario) ==
    LET metadata == Get(raw_scenario, "metadata", <<>>)
        session_name == Get(metadata, "name", None)
        device_info == Get(metadata, "device", <<>>)
        from_device ==
            IF DOMAIN device_info # {}
            THEN IF Truthy(Get(device_info, "serial", None))
                 THEN device_info["serial"]
                 ELSE Get(device_info, "id", None)
            ELSE None
        actions == Get(raw_scenario, "actions", JsonList(<<>>))
        from_action ==
            IF actions.is_list /\ Len(actions.items) > 0
            THEN Get(Get(actions.items[1], "params", <<>>), "device_id", None)
            ELSE None
        found == IF Truthy(from_device) THEN from_device ELSE from_action
    IN  IF ~Truthy(from_device) /\ ~actions.is_list /\ actions # JsonNull
        THEN Raise("AttributeError", "'str' object has no attribute 'get'")
        ELSE IF ~Truthy(session_name)
        THEN Raise("ValueError", "Invalid new schema: metadata.name is required")
        ELSE Return([session_name |-> session_name,
                     device_id |-> IF Truthy(found) THEN found ELSE "unknown",
                     actions |-> IF actions.is_list /\ Len(actions.items) > 1
                                 THEN JsonList(<<actions.items[1]>>)
                                 ELSE actions,
                     metadata |-> metadata,
                     schema_version |-> Get(raw_scenario, "schema_version", None)])

normalize_new_schema_prefers_id(raw_scenario) ==
    LET metadata == Get(raw_scenario, "metadata", <<>>)
        session_name == Get(metadata, "name", None)
        device_info == Get(metadata, "device", <<>>)
        from_device ==
            IF DOMAIN device_info # {}
            THEN IF Truthy(Get(device_info, "id", None))
                 THEN device_info["id"]
                 ELSE Get(device_info, "serial", None)
            ELSE None
        actions == Get(raw_scenario, "actions", JsonList(<<>>))
        from_action ==
            IF actions.is_list /\ Len(actions.items) > 0
            THEN Get(Get(actions.items[1], "params", <<>>), "device_id", None)
            ELSE None
        found == IF Truthy(from_device) THEN from_device ELSE from_action
    IN  IF ~Truthy(from_device) /\ ~actions.is_list /\ actions # JsonNull
        THEN Raise("AttributeError", "'str' object has no attribute 'get'")
        ELSE IF ~Truthy(session_name)
        THEN Raise("ValueError", "Invalid new schema: metadata.name is required")
        ELSE Return([session_name |-> session_name,
                     device_id |-> IF Truthy(found) THEN found ELSE "unknown",
                     actions |-> actions,
                     metadata |-> metadata,
                     schema_version |-> Get(raw_scenario, "schema_version", None)])

normalize_new_schema(raw_scenario) ==
    LET metadata == Get(raw_scenario, "metadata", <<>>)
        session_name == Get(metadata, "name", None)
        device_info == Get(metadata, "device", <<>>)
        from_device ==
            IF DOMAIN device_info # {}
            THEN IF Truthy(Get(device_info, "serial", None))
                 THEN device_info["serial"]
                 ELSE Get(device_info, "id", None)
            ELSE None
        actions == Get(raw_scenario, "actions", JsonList(<<>>))
        from_action ==
            IF actions.is_list /\ Len(actions.items) > 0
            THEN Get(Get(actions.items[1], "params", <<>>), "device_id", None)
            ELSE None
        found == IF Truthy(from_device) THEN from_device ELSE from_action
    IN  IF ~Truthy(from_device) /\ ~actions.is_list /\ actions # JsonNull
        THEN Raise("AttributeError", "'str' object has no attribute 'get'")
        ELSE IF ~Truthy(session_name)
        THEN Raise("ValueError", "Invalid new schema: metadata.name is required")
        ELSE Return([session_name |-> session_name,
                     device_id |-> IF Truthy(found) THEN found ELSE "unknown",
                     actions |-> actions,
                     metadata |-> metadata,
                     schema_version |-> Get(raw_scenario, "schema_version", None)])

validate_actions(scen) ==
    IF "actions" \notin DOMAIN scen
    THEN Raise("ValueError", "Invalid scenario: missing 'actions' field")
    ELSE IF ~scen["actions"].is_list
    THEN Raise("ValueError", "Invalid scenario: 'actions' must be a list")
    ELSE Return(scen)

load_scenario(f) ==
    IF ~f.exists THEN Raise("FileNotFoundError", "Scenario not found")
    ELSE IF ~f.valid_json THEN Raise("JSONDecodeError", "Expecting value")
    ELSE LET raw_scenario == f.document
         IN  IF "schema_version" \in DOMAIN raw_scenario
                /\ "metadata" \in DOMAIN raw_scenario
             THEN LET n == normalize_new_schema(raw_scenario)
                  IN  IF n.raised THEN n ELSE validate_actions(n.value)
             ELSE IF "session_name" \in DOMAIN raw_scenario
                     /\ "device_id" \in DOMAIN raw_scenario
             THEN validate_actions(raw_scenario)
             ELSE Raise("ValueError", "Invalid scenario format")

\* scenario.get('actions', []) of a loaded scenario
ActionsOf(scen) == Get(scen, "actions", JsonList(<<>>)).items

(***************************************************************************)
(* ReplayReport                                                            *)
(***************************************************************************)
NoMetrics == [present |-> FALSE]

ExecutionMetrics(retry_count, screenshot_captured) ==
    [present |-> TRUE, retry_count |-> retry_count,
     timeout_occurred |-> FALSE, screenshot_captured |-> screenshot_captured]

to_dict(r) ==
    [action_index |-> r.action_index,
     tool_name |-> r.tool_name,
     parameters |-> r.parameters,
     status |-> ActionStatus[r.status],
     result |-> r.result,
     error |-> r.error,
     retry_count |-> IF r.metrics.present THEN r.metrics.retry_count ELSE 0,
     screenshot_before |-> r.screenshot_before,
     screenshot_after |-> r.screenshot_after,
     screenshot_diff |-> r.screenshot_diff]

RECURSIVE CountStatus(_, _)
CountStatus(results, status) ==
    IF results = <<>> THEN 0
    ELSE (IF Head(results).status = status THEN 1 ELSE 0)
         + CountStatus(Tail(results), status)

SumRetries_of_last_result(results) ==
    IF results = <<>> THEN 0
    ELSE IF results[Len(results)].metrics.present
    THEN results[Len(results)].metrics.retry_count ELSE 0

RECURSIVE SumRetries(_)
SumRetries(results) ==
    IF results = <<>> THEN 0
    ELSE (IF Head(results).metrics.present
          THEN Head(results).metrics.retry_count ELSE 0)
         + SumRetries(Tail(results))

RECURSIVE FilterFailed(_)
FilterFailed(results) ==
    IF results = <<>> THEN <<>>
    ELSE IF Head(results).status = "FAILED"
         THEN <<to_dict(Head(results))>> \o FilterFailed(Tail(results))
         ELSE FilterFailed(Tail(results))

add_action_result_over_last(results, result) ==
    IF results = <<>> THEN <<result>>
    ELSE [results EXCEPT ![Len(results)] = result]

add_action_result_in_front(results, result) == <<result>> \o results

add_action_result(results, result) == Append(results, result)

add_global_error(errors, error) == Append(errors, error)

report_success_ignores_errors(failed, errors) == failed = 0

\* the `success` entry of the report
report_success(failed, errors) == failed = 0 /\ Len(errors) = 0

success_rate_full_when_empty(successful, total) ==
    IF total > 0 THEN (2 * successful * 10000 + total) \div (2 * total)
    ELSE 10000

\* round((successful / total * 100) if total > 0 else 0, 2), in hundredths
\* of a percent (100.0 is 10000); no tie of the rounding occurs below 64
\* results
success_rate(successful, total) ==
    IF total > 0 THEN (2 * successful * 10000 + total) \div (2 * total)
    ELSE 0

set_scenario_metadata(scen) ==
    [session_name |-> Get(scen, "session_name", None),
     device_id |-> Get(scen, "device_id", None),
     recorded_at |-> Get(scen, "timestamp", None),
     total_actions |-> Len(ActionsOf(scen))]

generate(metadata, results, errors) ==
    LET total == Len(results)
        successful == CountStatus(results, "SUCCESS")
        failed == CountStatus(results, "FAILED")
        skipped == CountStatus(results, "SKIPPED")
    IN  [generated |-> TRUE,
         success |-> report_success(failed, errors),
         scenario |-> metadata,
         execution |-> [total_actions |-> total,
                        successful_actions |-> successful,
                        failed_actions |-> failed,
                        skipped_actions |-> skipped,
                        success_rate |-> success_rate(successful, total),
                        total_retries |-> SumRetries(results)],
         action_results |-> [i \in 1..Len(results) |-> to_dict(results[i])],
         errors |-> errors,
         failed_actions |-> FilterFailed(results)]

(***************************************************************************)
(* ExecutionContext                                                        *)
(***************************************************************************)
\* what server.screenshot does with a call: it returns True while the
\* device's screenshot capability works, and returns False or raises while
\* it is broken
Cameras == {"works", "broken"}

ScreenshotOutcomes(cam) ==
    IF cam = "works" THEN {"true"} ELSE {"false", "raise"}

Pad3(n) ==
    IF n < 10 THEN "00" \o ToString(n)
    ELSE IF n < 100 THEN "0" \o ToString(n) ELSE ToString(n)

capture_screenshot_lets_error_through(action_index, stage, outcome) ==
    IF outcome = "true"
    THEN Return("replay_screenshots/action_" \o Pad3(action_index)
                \o "_" \o stage \o ".png")
    ELSE IF outcome = "raise"
    THEN Raise("Exception", "Screenshot failed")
    ELSE Return(None)

capture_screenshot(action_index, stage, outcome) ==
    IF outcome = "true"
    THEN Return("replay_screenshots/action_" \o Pad3(action_index)
                \o "_" \o stage \o ".png")
    ELSE Return(None)

RECURSIVE Pow2(_)
Pow2(n) == IF n = 0 THEN 1 ELSE 2 * Pow2(n - 1)

backoff_delay_grows_linearly(retry_delay_ms, n) == retry_delay_ms * (n + 1)

\* retry_delay_ms / 1000.0 * 2 ** attempt seconds, in milliseconds
backoff_delay(retry_delay_ms, n) == retry_delay_ms * Pow2(n)

backs_off_after_every_failure(n, retry_attempts) == n < retry_attempts

\* execute_with_retry() line 125: a backoff sleep follows this failed attempt
backs_off(n, retry_attempts) == n < retry_attempts - 1

retry_count_of_success_counts_attempts(n) == n + 1

\* execute_with_retry() line 98: retry_count of a success on attempt n
retry_count_of_success(n) == n

\* execute_with_retry() line 138: retry_count when every attempt failed
retry_count_of_failure(retry_attempts) == retry_attempts

ActionResult(index, tool, params, status, result, error, metrics, before, after) ==
    [action_index |-> index, tool_name |-> tool, parameters |-> params,
     status |-> status, result |-> result, error |-> error,
     metrics |-> metrics, screenshot_before |-> before,
     screenshot_after |-> after, screenshot_diff |-> None]

(***************************************************************************)
(* ReplayEngine                                                            *)
(***************************************************************************)
scaled_delay_multiplies(delay_ms, speed_multiplier) ==
    (delay_ms * speed_multiplier.num) \div speed_multiplier.den

\* delay_ms / 1000.0 / speed_multiplier seconds, in milliseconds
scaled_delay(delay_ms, speed_multiplier) ==
    (delay_ms * speed_multiplier.den) \div speed_multiplier.num

apply_delay_of_current(current_action, next_action, speed_multiplier) ==
    LET delay_ms == Get(current_action, "delay_before_ms", 0)
    IN  IF ~IsObject(next_action)
        THEN Raise("AttributeError", "'str' object has no attribute 'get'")
        ELSE IF delay_ms > 0 /\ scaled_delay(delay_ms, speed_multiplier) > 0
        THEN Return(<<[op |-> "delay",
                       ms |-> scaled_delay(delay_ms, speed_multiplier)]>>)
        ELSE Return(<<>>)

\* the sleeps _apply_delay requests; next_action.get raises when the next
\* element of `actions` is not an object
apply_delay(current_action, next_action, speed_multiplier) ==
    LET delay_ms == Get(next_action, "delay_before_ms", 0)
    IN  IF ~IsObject(next_action)
        THEN Raise("AttributeError", "'str' object has no attribute 'get'")
        ELSE IF delay_ms > 0 /\ scaled_delay(delay_ms, speed_multiplier) > 0
        THEN Return(<<[op |-> "delay",
                       ms |-> scaled_delay(delay_ms, speed_multiplier)]>>)
        ELSE Return(<<>>)

(***************************************************************************)
(* The recording state of the server                                       *)
(***************************************************************************)
\* the None of start_time and last_action_time, whose readings are numbers
NoTime == -1

\* server._recording_state as the module is loaded
InitialRecordingState ==
    [active |-> FALSE, session_name |-> None, actions |-> <<>>,
     screenshots_dir |-> None, start_time |-> NoTime, action_counter |-> 0,
     device_id |-> None, last_action_time |-> NoTime]

NoReply == [call |-> None]

\* one call of a recording tool function, as _record_action gets it
ToolCall(tool_name, params, result) ==
    [tool |-> tool_name, params |-> params, result |-> result]

record_action_whether_active_or_not(state, clock, cam, call) ==
    LET action_id == state.action_counter + 1
    IN  [state |-> [state EXCEPT
                       !.action_counter = action_id,
                       !.actions = Append(@,
                           [id |-> action_id, timestamp |-> clock,
                            tool |-> call.tool, params |-> call.params,
                            result |-> call.result, delay_before_ms |-> 0,
                            delay_after_ms |-> 1000]),
                       !.last_action_time = clock],
         clock |-> clock + 1]

\* _record_action: the recording state and the clock after the call
record_action(state, clock, cam, call) ==
    IF ~state.active THEN [state |-> state, clock |-> clock]
    ELSE LET action_id == state.action_counter + 1
             delay_before_ms ==
                 IF state.last_action_time # NoTime
                 THEN (clock - state.last_action_time) * 1000 ELSE 0
             action_data ==
                 [id |-> action_id, timestamp |-> clock, tool |-> call.tool,
                  params |-> call.params, result |-> call.result,
                  delay_before_ms |-> delay_before_ms,
                  delay_after_ms |-> 1000]
             screenshot_file ==
                 state.screenshots_dir \o "/" \o Pad3(action_id) \o "_"
                     \o call.tool \o ".png"
             with_screenshot ==
                 [k \in DOMAIN action_data \cup {"screenshot"} |->
                     IF k # "screenshot" THEN action_data[k]
                     ELSE IF cam = "works" THEN screenshot_file ELSE None]
         IN  [state |-> [state EXCEPT
                            !.action_counter = action_id,
                            !.actions = Append(@,
                                IF state.screenshots_dir # None
                                THEN with_screenshot ELSE action_data),
                            !.last_action_time = clock],
              clock |-> clock + 1]

\* the _record_action calls of the tool calls that succeeded, in order
RECURSIVE record_actions(_, _, _, _)
record_actions(state, clock, cam, calls) ==
    IF calls = <<>> THEN [state |-> state, clock |-> clock]
    ELSE LET r == record_action(state, clock, cam, Head(calls))
         IN  record_actions(r.state, r.clock, cam, Tail(calls))

\* the recording state after the server's tools made these successful calls
Recorded(calls) ==
    LET r == record_actions(recording_state, now, camera, calls)
    IN  /\ recording_state' = r.state
        /\ now' = r.clock

\* the call of server.screenshot behind a capture that succeeded
ScreenshotCall(path, device) ==
    ToolCall("screenshot", [filename |-> path, device_id |-> device], "True")

\* server.click: what it returns and the _record_action calls it makes; it
\* returns False, recording nothing, when the element is not found or the
\* device raises
click(selector, device, outcome) ==
    IF outcome = "True"
    THEN [value |-> "True",
          calls |-> <<ToolCall("click",
                               [selector |-> selector, selector_type |-> "text",
                                timeout |-> 10, device_id |-> device],
                               "True")>>]
    ELSE [value |-> "False", calls |-> <<>>]

start_recording_over_active(state, clock, session_name, capture_screenshots, device, mkdir) ==
    IF mkdir = "raise"
    THEN [state |-> state, clock |-> clock + 1,
          reply |-> Raise("OSError", "cannot create directory")]
    ELSE LET session_id == session_name \o "_" \o ToString(clock)
             scenarios_dir == "scenarios/" \o session_id
         IN  [state |-> [active |-> TRUE, session_name |-> session_id,
                         description |-> None, actions |-> <<>>,
                         screenshots_dir |->
                             IF capture_screenshots
                             THEN scenarios_dir \o "/screenshots" ELSE None,
                         start_time |-> clock + 1, action_counter |-> 0,
                         device_id |-> device, last_action_time |-> NoTime],
              clock |-> clock + 2,
              reply |-> Return([recording_id |-> session_id,
                                status |-> "active",
                                start_time |-> clock + 1,
                                capture_screenshots |-> capture_screenshots])]

\* start_recording: the recording state, the clock and the reply after the
\* call; mkdir is what creating the directories does
start_recording(state, clock, session_name, capture_screenshots, device, mkdir) ==
    IF state.active
    THEN [state |-> state, clock |-> clock,
          reply |-> Return([error |-> "Recording already in progress",
                            current_session |-> state.session_name])]
    ELSE IF mkdir = "raise"
    THEN [state |-> state, clock |-> clock + 1,
          reply |-> Raise("OSError", "cannot create directory")]
    ELSE LET session_id == session_name \o "_" \o ToString(clock)
             scenarios_dir == "scenarios/" \o session_id
         IN  [state |-> [active |-> TRUE, session_name |-> session_id,
                         description |-> None, actions |-> <<>>,
                         screenshots_dir |->
                             IF capture_screenshots
                             THEN scenarios_dir \o "/screenshots" ELSE None,
                         start_time |-> clock + 1, action_counter |-> 0,
                         device_id |-> device, last_action_time |-> NoTime],
              clock |-> clock + 2,
              reply |-> Return([recording_id |-> session_id,
                                status |-> "active",
                                start_time |-> clock + 1,
                                capture_screenshots |-> capture_screenshots])]

\* json.dump(scenario, f) followed by the json.load of load_scenario: the
\* file exists and parses, objects, strings and numbers come back as written
\* and the Python list under `actions` comes back as a JSON array
json_dump(obj) ==
    [exists |-> TRUE, valid_json |-> TRUE,
     document |-> [obj EXCEPT !.actions = JsonList(@)]]

\* device_info of stop_recording: {} when u2.connect(...).info raises, the
\* four keys read from d.info otherwise
device_info(info) ==
    IF info = "raise" THEN <<>>
    ELSE [manufacturer |-> "Google", model |-> "Pixel 7",
          android_version |-> "14", sdk |-> 34]

\* stop_recording leaving "schema_version" out of the scenario it writes
stop_recording_without_schema_version(state, clock, info, save) ==
    IF ~state.active
    THEN [state |-> state, clock |-> clock, written |-> [exists |-> FALSE],
          reply |-> Return([error |-> "No active recording session"])]
    ELSE IF save = "raise"
    THEN [state |-> state, clock |-> clock + 1, written |-> [exists |-> FALSE],
          reply |-> Raise("OSError", "cannot write scenario.json")]
    ELSE LET duration_ms == (clock - state.start_time) * 1000
         IN  [state |-> [state EXCEPT !.active = FALSE],
              clock |-> clock + 1,
              written |-> json_dump(
                          [metadata |-> [name |-> state.session_name,
                                         description |-> state.description,
                                         created_at |-> state.start_time,
                                         device |-> device_info(info),
                                         duration_ms |-> duration_ms],
                           actions |-> state.actions]),
              reply |-> Return([scenario_file |-> "scenarios/"
                                    \o state.session_name \o "/scenario.json",
                                screenshot_folder |-> state.screenshots_dir,
                                action_count |-> Len(state.actions),
                                duration_ms |-> duration_ms,
                                status |-> "saved"])]

\* stop_recording: the recording state, the clock and the reply after the
\* call, and the scenario file as the call leaves it; info is what reading the
\* device information does, save is what writing the file does
stop_recording(state, clock, info, save) ==
    IF ~state.active
    THEN [state |-> state, clock |-> clock, written |-> [exists |-> FALSE],
          reply |-> Return([error |-> "No active recording session"])]
    ELSE IF save = "raise"
    THEN [state |-> state, clock |-> clock + 1, written |-> [exists |-> FALSE],
          reply |-> Raise("OSError", "cannot write scenario.json")]
    ELSE LET duration_ms == (clock - state.start_time) * 1000
         IN  [state |-> [state EXCEPT !.active = FALSE],
              clock |-> clock + 1,
              written |-> json_dump(
                          [schema_version |-> "1.0",
                           metadata |-> [name |-> state.session_name,
                                         description |-> state.description,
                                         created_at |-> state.start_time,
                                         device |-> device_info(info),
                                         duration_ms |-> duration_ms],
                           actions |-> state.actions]),
              reply |-> Return([scenario_file |-> "scenarios/"
                                    \o state.session_name \o "/scenario.json",
                                screenshot_folder |-> state.screenshots_dir,
                                action_count |-> Len(state.actions),
                                duration_ms |-> duration_ms,
                                status |-> "saved"])]

\* what server.screen_on does with the call: the environment's choice
ScreenOnOutcomes == {"return", "raise"}

ensure_device_ready_without_device(device, outcome) ==
    IF outcome = "return"
    THEN Return(<<[op |-> "screen_on", ok |-> TRUE],
                  [op |-> "settle", ms |-> SettleMs]>>)
    ELSE Return(<<[op |-> "screen_on", ok |-> FALSE]>>)

ensure_device_ready_lets_error_through(device, outcome) ==
    IF ~Truthy(device) THEN Return(<<>>)
    ELSE IF outcome = "return"
    THEN Return(<<[op |-> "screen_on", ok |-> TRUE],
                  [op |-> "settle", ms |-> SettleMs]>>)
    ELSE Raise("RuntimeError", "screen_on failed")

\* the calls _ensure_device_ready makes; it swallows what screen_on raises
ensure_device_ready(device, outcome) ==
    IF ~Truthy(device) THEN Return(<<>>)
    ELSE IF outcome = "return"
    THEN Return(<<[op |-> "screen_on", ok |-> TRUE],
                  [op |-> "settle", ms |-> SettleMs]>>)
    ELSE Return(<<[op |-> "screen_on", ok |-> FALSE]>>)

except_Exception_reraises(errors, e) == [caught |-> FALSE, errors |-> errors]

except_Exception_drops_error(errors, e) == [caught |-> TRUE, errors |-> errors]

\* the `except Exception as e` clause of replay(): the global errors after it
except_Exception(errors, e) ==
    [caught |-> TRUE, errors |-> add_global_error(errors, "Replay error: " \o e)]

stops_replay_after_first_action(result, stop_on_error) ==
    result.status # "SUCCESS" /\ stop_on_error /\ result.action_index > 0

stops_replay_on_any_failure(result, stop_on_error) ==
    result.status # "SUCCESS"

stops_replay_never(result, stop_on_error) == FALSE

\* replay() line 178: the loop is left after this result
stops_replay(result, stop_on_error) ==
    result.status # "SUCCESS" /\ stop_on_error

\* device_id is read by _ensure_device_ready alone, and the screenshot
\* capability by the captures alone: where the configuration switches these
\* off, one value stands for all
Init ==
    /\ config \in ReplayConfig
    /\ device_id \in IF config.wait_for_screen_on THEN DeviceIds ELSE {None}
    /\ file \in Files
    /\ camera \in IF config.capture_screenshots \/ config.screenshot_on_error
                   THEN Cameras ELSE {"works"}
    /\ pc = "ready"
    /\ scenario = NoScenario
    /\ idx = 0
    /\ attempt = 0
    /\ last_error = None
    /\ screenshot_before = None
    /\ scenario_metadata = <<>>
    /\ action_results = <<>>
    /\ global_errors = <<>>
    /\ returned = NoReport
    /\ raised = FALSE
    /\ log = <<>>
    /\ recording_state = InitialRecordingState
    /\ now = 0
    /\ reply = NoReply
    /\ tool_values = {"True"}

\* replay() lines 189-192: finally, return self.report.generate(duration)
ReturnReport(metadata, results, errors) ==
    /\ returned' = generate(metadata, results, errors)
    /\ raised' = FALSE
    /\ pc' = "done"

CaughtWith_without_results(e, metadata, results) ==
    LET h == except_Exception(global_errors, e)
    IN  /\ global_errors' = h.errors
        /\ ReturnReport(metadata, <<>>, h.errors)

\* an exception e raised inside the try block of replay(), the results of
\* the report being `results` by then
CaughtWith(e, metadata, results) ==
    LET h == except_Exception(global_errors, e)
    IN  IF h.caught
        THEN /\ global_errors' = h.errors
             /\ ReturnReport(metadata, results, h.errors)
        ELSE /\ global_errors' = global_errors
             /\ returned' = NoReport
             /\ raised' = TRUE
             /\ pc' = "done"

Caught(e, metadata) == CaughtWith(e, metadata, action_results)

\* replay() lines 172-173: entering the loop over the actions
BeginLoop(scen, metadata) ==
    /\ global_errors' = global_errors
    /\ IF Len(ActionsOf(scen)) = 0
       THEN ReturnReport(metadata, action_results, global_errors)
       ELSE pc' = "exec" /\ UNCHANGED <<returned, raised>>

\* replay() lines 160-169, up to the call of server.screen_on
LoadScenario ==
    /\ pc = "ready"
    /\ LET r == load_scenario(file)
       IN  IF r.raised
           THEN /\ Caught(r.error, scenario_metadata)
                /\ UNCHANGED <<scenario, scenario_metadata>>
           ELSE /\ scenario' = r.value
                /\ scenario_metadata' = set_scenario_metadata(r.value)
                /\ IF config.wait_for_screen_on
                   THEN /\ pc' = "prepare"
                        /\ UNCHANGED <<global_errors, returned, raised>>
                   ELSE BeginLoop(r.value, set_scenario_metadata(r.value))
    /\ UNCHANGED <<config, device_id, file, camera, idx, attempt, last_error,
                   screenshot_before, action_results, log>>
    /\ UNCHANGED <<recording_state, now, reply>>
    /\ UNCHANGED tool_values

\* replay() line 169: _ensure_device_ready()
EnsureDeviceReady ==
    /\ pc = "prepare"
    /\ \E outcome \in ScreenOnOutcomes :
         LET r == ensure_device_ready(device_id, outcome)
         IN  IF r.raised
             THEN /\ Caught(r.error, scenario_metadata)
                  /\ log' = Append(log, [op |-> "screen_on", ok |-> FALSE])
                  /\ Recorded(<<>>)
             ELSE /\ BeginLoop(scenario, scenario_metadata)
                  /\ log' = log \o r.value
                  /\ Recorded(
                        IF \E p \in 1..Len(r.value) :
                               r.value[p].op = "screen_on" /\ r.value[p].ok
                        THEN <<ToolCall("screen_on",
                                        [device_id |-> device_id], "True")>>
                        ELSE <<>>)
    /\ UNCHANGED <<config, device_id, file, camera, scenario, idx, attempt, last_error,
                   screenshot_before, scenario_metadata, action_results>>
    /\ UNCHANGED reply
    /\ UNCHANGED tool_values

captures_on_error_when_capturing(cfg) == cfg.capture_screenshots

\* execute_with_retry() line 144: the exhausted path captures a screenshot
captures_on_error(cfg) == cfg.screenshot_on_error

status_of_return_by_value(value) ==
    IF value = "True" THEN "SUCCESS" ELSE "FAILED"

\* execute_with_retry() line 114: the status of an attempt whose dispatch
\* returned
status_of_return(value) == "SUCCESS"

attempts_left_always(attempt_, retry_attempts) == TRUE

\* execute_with_retry() line 85: `for attempt in range(retry_attempts)` has
\* another pass to make
attempts_left(attempt_, retry_attempts) == attempt_ < retry_attempts

str_e_of_first_failure(previous, e) == IF previous = None THEN e ELSE previous

\* execute_with_retry() line 122: last_error = str(e)
str_e(previous, e) == e

\* replay() line 174, _execute_action() lines 209-210 (action.get raises
\* when the element of `actions` is not an object) and execute_with_retry()
\* lines 71-82
BeginAction ==
    /\ pc = "exec"
    /\ \E shot \in ScreenshotOutcomes(camera) :
         LET cap == IF config.capture_screenshots
                    THEN capture_screenshot(idx, "before", shot)
                    ELSE Return(None)
             calls == IF config.capture_screenshots
                      THEN <<[op |-> "screenshot", idx |-> idx,
                              stage |-> "before", ok |-> shot = "true"]>>
                      ELSE <<>>
         IN  IF ~IsObject(ActionsOf(scenario)[idx + 1])
             THEN /\ Caught("'str' object has no attribute 'get'",
                            scenario_metadata)
                  /\ UNCHANGED <<log, screenshot_before, attempt, last_error>>
                  /\ Recorded(<<>>)
             ELSE /\ log' = Append(log, [op |-> "execute", idx |-> idx]) \o calls
                  /\ Recorded(IF config.capture_screenshots /\ shot = "true"
                              THEN <<ScreenshotCall(cap.value, device_id)>>
                              ELSE <<>>)
                  /\ IF cap.raised
                     THEN /\ Caught(cap.error, scenario_metadata)
                          /\ UNCHANGED <<screenshot_before, attempt, last_error>>
                     ELSE /\ screenshot_before' = cap.value
                          /\ attempt' = 0
                          /\ last_error' = None
                          /\ pc' = "attempt"
                          /\ UNCHANGED <<global_errors, returned, raised>>
    /\ UNCHANGED <<config, device_id, file, camera, scenario, idx, scenario_metadata,
                   action_results>>
    /\ UNCHANGED reply
    /\ UNCHANGED tool_values

\* replay() lines 175-184, after execute_with_retry() returned `result`
EndAction(scen, result, calls) ==
    LET results == add_action_result(action_results, result)
        actions == ActionsOf(scen)
    IN  /\ action_results' = results
        /\ IF stops_replay(result, config.stop_on_error)
           THEN /\ ReturnReport(scenario_metadata, results, global_errors)
                /\ global_errors' = global_errors
                /\ log' = log \o calls
                /\ idx' = idx
           ELSE IF idx < Len(actions) - 1
           THEN LET d == apply_delay(actions[idx + 1], actions[idx + 2],
                                     config.speed_multiplier)
                IN  IF d.raised
                    THEN /\ CaughtWith(d.error, scenario_metadata, results)
                         /\ log' = log \o calls
                         /\ idx' = idx
                    ELSE /\ log' = log \o calls \o d.value
                         /\ idx' = idx + 1
                         /\ pc' = "exec"
                         /\ UNCHANGED <<global_errors, returned, raised>>
           ELSE /\ ReturnReport(scenario_metadata, results, global_errors)
                /\ global_errors' = global_errors
                /\ log' = log \o calls
                /\ idx' = idx

\* the caller's parameter map of action i becomes p
WithParams(scen, i, p) ==
    [scen EXCEPT !.actions.items[i + 1] =
        IF "params" \in DOMAIN @ THEN [@ EXCEPT !.params = p] ELSE @]

\* execute_with_retry() lines 85-128: one pass of the retry loop
Dispatch ==
    /\ pc = "attempt"
    /\ attempts_left(attempt, config.retry_attempts)
    /\ LET action == ActionsOf(scenario)[idx + 1]
           tool_name == Get(action, "tool", None)
           parameters == Get(action, "params", <<>>)
           call == Cardinality({p \in 1..Len(log) : log[p].op = "dispatch"}) + 1
       IN  \E outcome \in ToolOutcomes(call), shot \in ScreenshotOutcomes(camera) :
             LET d == dispatch(tool_name, parameters, outcome)
                 called == [op |-> "dispatch", idx |-> idx,
                            attempt |-> attempt, ok |-> ~d.raised]
                 cap == IF config.capture_screenshots
                        THEN capture_screenshot(idx, "after", shot)
                        ELSE Return(None)
                 shots == IF config.capture_screenshots
                          THEN <<[op |-> "screenshot", idx |-> idx,
                                  stage |-> "after", ok |-> shot = "true"]>>
                          ELSE <<>>
             IN  /\ scenario' = WithParams(scenario, idx, d.parameters)
                 /\ IF ~d.raised
                    THEN /\ EndAction(
                              WithParams(scenario, idx, d.parameters),
                              ActionResult(idx, tool_name, d.parameters,
                                  status_of_return(d.value), d.value, None,
                                  ExecutionMetrics(
                                      retry_count_of_success(attempt),
                                      config.capture_screenshots),
                                  screenshot_before, cap.value),
                              <<called>> \o shots)
                         /\ UNCHANGED <<attempt, last_error>>
                         /\ Recorded(
                               (IF d.value = "True"
                                THEN <<ToolCall(tool_name, d.parameters,
                                                d.value)>>
                                ELSE <<>>)
                               \o (IF config.capture_screenshots /\ shot = "true"
                                   THEN <<ScreenshotCall(cap.value, device_id)>>
                                   ELSE <<>>))
                    ELSE /\ last_error' = str_e(last_error, d.error)
                         /\ attempt' = attempt + 1
                         /\ log' = IF backs_off(attempt, config.retry_attempts)
                                   THEN log \o <<called,
                                       [op |-> "backoff", idx |-> idx,
                                        ms |-> backoff_delay(
                                            config.retry_delay_ms, attempt)]>>
                                   ELSE Append(log, called)
                         /\ UNCHANGED <<pc, idx, action_results, global_errors,
                                        returned, raised, recording_state,
                                        now>>
    /\ UNCHANGED <<config, device_id, file, camera, screenshot_before,
                   scenario_metadata>>
    /\ UNCHANGED reply
    /\ UNCHANGED tool_values

\* execute_with_retry() lines 130-159: the retry loop ran out
Exhausted ==
    /\ pc = "attempt"
    /\ ~attempts_left(attempt, config.retry_attempts)
    /\ LET action == ActionsOf(scenario)[idx + 1]
           tool_name == Get(action, "tool", None)
           parameters == Get(action, "params", <<>>)
       IN  \E shot \in ScreenshotOutcomes(camera) :
             LET cap == IF captures_on_error(config)
                        THEN capture_screenshot(idx, "error", shot)
                        ELSE Return(None)
                 shots == IF captures_on_error(config)
                          THEN <<[op |-> "screenshot", idx |-> idx,
                                  stage |-> "error", ok |-> shot = "true"]>>
                          ELSE <<>>
             IN  EndAction(
                     scenario,
                     ActionResult(idx, tool_name, parameters, "FAILED", None,
                         last_error,
                         ExecutionMetrics(
                             retry_count_of_failure(config.retry_attempts),
                             FALSE),
                         screenshot_before, cap.value),
                     shots)
                 /\ Recorded(IF captures_on_error(config) /\ shot = "true"
                             THEN <<ScreenshotCall(cap.value, device_id)>>
                             ELSE <<>>)
    /\ UNCHANGED <<config, device_id, file, camera, scenario, attempt, last_error,
                   screenshot_before, scenario_metadata>>
    /\ UNCHANGED reply
    /\ UNCHANGED tool_values

Next ==
    \/ LoadScenario
    \/ EnsureDeviceReady
    \/ BeginAction
    \/ Dispatch
    \/ Exhausted

Spec == Init /\ [][Next]_vars

(***************************************************************************)
(* ReplayReport on its own: any sequence of add_action_result and          *)
(* add_global_error calls on a new accumulator, and generate()             *)
(***************************************************************************)
DefaultConfig ==
    [retry_attempts |-> 3, retry_delay_ms |-> 500,
     capture_screenshots |-> FALSE, screenshot_on_error |-> TRUE,
     speed_multiplier |-> [num |-> 1, den |-> 1],
     stop_on_error |-> FALSE, wait_for_screen_on |-> TRUE]

\* the results a caller may add: every status, with and without metrics
ReportInputs(action_index) ==
    {ActionResult(action_index, "click", [selector |-> "Login"], st, None,
                  None, m, None, None) :
        st \in StatusNames, m \in {NoMetrics, ExecutionMetrics(1, FALSE)}}

InitReport ==
    /\ config = DefaultConfig
    /\ device_id = None
    /\ file = [exists |-> FALSE, valid_json |-> FALSE, document |-> <<>>]
    /\ camera = "works"
    /\ pc = "accumulating"
    /\ scenario = NoScenario
    /\ idx = 0
    /\ attempt = 0
    /\ last_error = None
    /\ screenshot_before = None
    /\ scenario_metadata = <<>>
    /\ action_results = <<>>
    /\ global_errors = <<>>
    /\ returned = NoReport
    /\ raised = FALSE
    /\ log = <<>>
    /\ recording_state = InitialRecordingState
    /\ now = 0
    /\ reply = NoReply
    /\ tool_values = {"True"}

\* generate() line 150 puts the accumulator's own global_errors list in the
\* report: a report already returned shows the accumulator's errors as they
\* are now
held_report(report, errors) ==
    IF report.generated THEN [report EXCEPT !.errors = errors] ELSE report

AddActionResult ==
    /\ pc \in {"accumulating", "generated"}
    /\ Len(action_results) < MaxResults
    /\ \E r \in ReportInputs(Len(action_results)) :
         action_results' = add_action_result(action_results, r)
    /\ pc' = "accumulating"
    /\ UNCHANGED <<config, device_id, file, camera, scenario, idx, attempt,
                   last_error, screenshot_before, scenario_metadata,
                   global_errors, returned, raised, log>>
    /\ UNCHANGED <<recording_state, now, reply>>
    /\ UNCHANGED tool_values

AddGlobalError ==
    /\ pc \in {"accumulating", "generated"}
    /\ Len(global_errors) < MaxErrors
    /\ global_errors' = add_global_error(global_errors, "Replay error: boom")
    /\ returned' = held_report(returned,
                       add_global_error(global_errors, "Replay error: boom"))
    /\ pc' = "accumulating"
    /\ UNCHANGED <<config, device_id, file, camera, scenario, idx, attempt,
                   last_error, screenshot_before, scenario_metadata,
                   action_results, raised, log>>
    /\ UNCHANGED <<recording_state, now, reply>>
    /\ UNCHANGED tool_values

Generate ==
    /\ pc \in {"accumulating", "generated"}
    /\ returned' = generate(scenario_metadata, action_results, global_errors)
    /\ pc' = "generated"
    /\ UNCHANGED <<config, device_id, file, camera, scenario, idx, attempt,
                   last_error, screenshot_before, scenario_metadata,
                   action_results, global_errors, raised, log>>
    /\ UNCHANGED <<recording_state, now, reply>>
    /\ UNCHANGED tool_values

NextReport ==
    \/ AddActionResult
    \/ AddGlobalError
    \/ Generate

SpecReport == InitReport /\ [][NextReport]_vars

(***************************************************************************)
(* A replay of a scenario of one action with up to MaxBackoffAttempts      *)
(* attempts, so that one execute_with_retry call sleeps several times      *)
(***************************************************************************)
MaxBackoffAttempts == 4

BackoffConfig ==
    [retry_attempts : 0..MaxBackoffAttempts,
     retry_delay_ms : RetryDelays \cup {100},
     capture_screenshots : BOOLEAN,
     screenshot_on_error : BOOLEAN,
     speed_multiplier : {[num |-> 1, den |-> 1]},
     stop_on_error : {FALSE},
     wait_for_screen_on : BOOLEAN]

InitBackoff ==
    /\ config \in BackoffConfig
    /\ device_id \in DeviceIds
    /\ file \in {[exists |-> TRUE, valid_json |-> TRUE,
                  document |-> OldShape(<<a>>)] : a \in RecordedActions}
    /\ camera \in Cameras
    /\ pc = "ready"
    /\ scenario = NoScenario
    /\ idx = 0
    /\ attempt = 0
    /\ last_error = None
    /\ screenshot_before = None
    /\ scenario_metadata = <<>>
    /\ action_results = <<>>
    /\ global_errors = <<>>
    /\ returned = NoReport
    /\ raised = FALSE
    /\ log = <<>>
    /\ recording_state = InitialRecordingState
    /\ now = 0
    /\ reply = NoReply
    /\ tool_values = {"True"}

SpecBackoff == InitBackoff /\ [][Next]_vars

(***************************************************************************)
(* load_scenario on its own: one call on a file whose document is any      *)
(* combination of the keys the two shapes use.  metadata and               *)
(* metadata.device, where present, are JSON objects.                       *)
(***************************************************************************)
\* the JSON object r cut down to the keys K
WithKeys(r, K) == [k \in K |-> r[k]]

DeviceInfos ==
    {WithKeys([serial |-> sn, id |-> i], K) :
        sn \in {"", "emulator-5554"}, i \in {"R58M0000"},
        K \in SUBSET {"serial", "id"}}

MetadataValues ==
    {WithKeys([name |-> n, device |-> d], K) :
        n \in {"", "login_flow"}, d \in DeviceInfos,
        K \in SUBSET {"name", "device"}}

ActionsValues ==
    {JsonNotList, JsonNull, JsonList(<<>>),
     JsonList(<<[tool |-> "click", params |-> [selector |-> "Login"]]>>),
     JsonList(<<[tool |-> "click",
                 params |-> [selector |-> "Login",
                             device_id |-> "192.168.1.5:5555"]],
                [tool |-> "screenshot", params |-> [filepath |-> "shot.png"]]>>)}

LoadDocuments ==
    {WithKeys([schema_version |-> "1.0", metadata |-> m,
               session_name |-> "login_flow", device_id |-> "emulator-5554",
               actions |-> a], K) :
        m \in MetadataValues, a \in ActionsValues,
        K \in SUBSET {"schema_version", "metadata", "session_name",
                      "device_id", "actions"}}

LoadFiles ==
    {[exists |-> FALSE, valid_json |-> FALSE, document |-> <<>>],
     [exists |-> TRUE, valid_json |-> FALSE, document |-> <<>>]}
    \cup {[exists |-> TRUE, valid_json |-> TRUE, document |-> d] :
            d \in LoadDocuments}

InitLoad ==
    /\ config = DefaultConfig
    /\ device_id = None
    /\ file \in LoadFiles
    /\ camera = "works"
    /\ pc = "ready"
    /\ scenario = NoScenario
    /\ idx = 0
    /\ attempt = 0
    /\ last_error = None
    /\ screenshot_before = None
    /\ scenario_metadata = <<>>
    /\ action_results = <<>>
    /\ global_errors = <<>>
    /\ returned = NoReport
    /\ raised = FALSE
    /\ log = <<>>
    /\ recording_state = InitialRecordingState
    /\ now = 0
    /\ reply = NoReply
    /\ tool_values = {"True"}

\* engine.load_scenario(scenario_path) called by itself: it returns the
\* scenario, or raises (last_error is then the exception)
CallLoadScenario ==
    /\ pc = "ready"
    /\ LET r == load_scenario(file)
       IN  IF r.raised
           THEN /\ raised' = TRUE
                /\ last_error' = [exc |-> r.exc, error |-> r.error]
                /\ UNCHANGED scenario
           ELSE /\ raised' = FALSE
                /\ scenario' = r.value
                /\ UNCHANGED last_error
    /\ pc' = "loaded"
    /\ UNCHANGED <<config, device_id, file, camera, idx, attempt,
                   screenshot_before, scenario_metadata, action_results,
                   global_errors, returned, log>>
    /\ UNCHANGED <<recording_state, now, reply>>
    /\ UNCHANGED tool_values

NextLoad == CallLoadScenario

SpecLoad == InitLoad /\ [][NextLoad]_vars

(***************************************************************************)
(* One ReplayEngine object whose replay() is called up to MaxReplays       *)
(* times, each time with a scenario path of the caller's choice.  The      *)
(* engine's report object is the one its constructor made                  *)
(* (replay_engine.py:39); replay() makes no other.                         *)
(***************************************************************************)
MaxReplays == 2
MaxRecorded == 2
MaxClock == 5

ReuseConfig ==
    [retry_attempts : {1},
     retry_delay_ms : RetryDelays,
     capture_screenshots : {FALSE},
     screenshot_on_error : {TRUE},
     speed_multiplier : {[num |-> 1, den |-> 1]},
     stop_on_error : BOOLEAN,
     wait_for_screen_on : BOOLEAN]

ReuseFiles ==
    {[exists |-> FALSE, valid_json |-> FALSE, document |-> <<>>]}
    \cup {[exists |-> TRUE, valid_json |-> TRUE, document |-> OldShape(a)] :
            a \in SeqsUpTo(RecordedActions, 1)}

InitReuse ==
    /\ config \in ReuseConfig
    /\ device_id \in DeviceIds
    /\ file \in ReuseFiles
    /\ camera = "works"
    /\ pc = "ready"
    /\ scenario = NoScenario
    /\ idx = 0
    /\ attempt = 0
    /\ last_error = None
    /\ screenshot_before = None
    /\ scenario_metadata = <<>>
    /\ action_results = <<>>
    /\ global_errors = <<>>
    /\ returned = NoReport
    /\ raised = FALSE
    /\ log = <<>>
    /\ recording_state = InitialRecordingState
    /\ now = 0
    /\ reply = NoReply
    /\ tool_values = {"True"}

\* the caller calls replay(scenario_path) on the same engine again: the
\* locals of replay() are new, the fields of the engine are as they were
ReplayAgain ==
    /\ pc = "done"
    /\ Cardinality({p \in 1..Len(log) : log[p].op = "replay"}) < MaxReplays - 1
    /\ file' \in ReuseFiles
    /\ pc' = "ready"
    /\ scenario' = NoScenario
    /\ idx' = 0
    /\ attempt' = 0
    /\ last_error' = None
    /\ screenshot_before' = None
    /\ returned' = NoReport
    /\ raised' = FALSE
    /\ log' = Append(log, [op |-> "replay"])
    /\ UNCHANGED <<config, device_id, camera, scenario_metadata,
                   action_results, global_errors>>
    /\ UNCHANGED <<recording_state, now, reply>>
    /\ UNCHANGED tool_values

NextReuse ==
    \/ LoadScenario
    \/ EnsureDeviceReady
    \/ BeginAction
    \/ Dispatch
    \/ Exhausted
    \/ ReplayAgain

SpecReuse == InitReuse /\ [][NextReuse]_vars

(***************************************************************************)
(* A replay with the screenshots switched off: the order of the steps of   *)
(* replay() over a scenario of up to MaxActions actions                    *)
(***************************************************************************)
SequenceConfig ==
    [retry_attempts : 0..MaxRetryAttempts,
     retry_delay_ms : RetryDelays,
     capture_screenshots : {FALSE},
     screenshot_on_error : {FALSE},
     speed_multiplier : {[num |-> 1, den |-> 1]},
     stop_on_error : BOOLEAN,
     wait_for_screen_on : BOOLEAN]

\* the scenario files of Files, and scenarios in which one element of
\* `actions` is a JSON string
MalformedActionLists ==
    {<<JsonText("click")>>,
     <<[tool |-> "click", params |-> [selector |-> "Login"]],
       JsonText("click")>>}

SequenceFiles ==
    Files \cup {[exists |-> TRUE, valid_json |-> TRUE, document |-> OldShape(a)] :
                  a \in MalformedActionLists}

InitSequence ==
    /\ config \in SequenceConfig
    /\ device_id \in DeviceIds
    /\ file \in SequenceFiles
    /\ camera = "works"
    /\ pc = "ready"
    /\ scenario = NoScenario
    /\ idx = 0
    /\ attempt = 0
    /\ last_error = None
    /\ screenshot_before = None
    /\ scenario_metadata = <<>>
    /\ action_results = <<>>
    /\ global_errors = <<>>
    /\ returned = NoReport
    /\ raised = FALSE
    /\ log = <<>>
    /\ recording_state = InitialRecordingState
    /\ now = 0
    /\ reply = NoReply
    /\ tool_values = {"True"}

SpecSequence == InitSequence /\ [][Next]_vars

(***************************************************************************)
(* A replay whose tools return False and None as well as True              *)
(***************************************************************************)
InitValues ==
    /\ config \in SequenceConfig
    /\ device_id = "emulator-5554"
    /\ file \in Files
    /\ camera = "works"
    /\ tool_values = ToolValues
    /\ pc = "ready"
    /\ scenario = NoScenario
    /\ idx = 0
    /\ attempt = 0
    /\ last_error = None
    /\ screenshot_before = None
    /\ scenario_metadata = <<>>
    /\ action_results = <<>>
    /\ global_errors = <<>>
    /\ returned = NoReport
    /\ raised = FALSE
    /\ log = <<>>
    /\ recording_state = InitialRecordingState
    /\ now = 0
    /\ reply = NoReply

SpecValues == InitValues /\ [][Next]_vars

(***************************************************************************)
(* A replay that keeps running: every call it makes returns or raises      *)
(***************************************************************************)
LiveConfig ==
    [retry_attempts : 0..MaxRetryAttempts, retry_delay_ms : RetryDelays,
     capture_screenshots : {TRUE}, screenshot_on_error : {TRUE},
     speed_multiplier : {[num |-> 1, den |-> 1]},
     stop_on_error : BOOLEAN, wait_for_screen_on : {TRUE}]

InitLive ==
    /\ config \in LiveConfig
    /\ device_id = "emulator-5554"
    /\ file \in SequenceFiles
    /\ camera \in Cameras
    /\ tool_values = {"True"}
    /\ pc = "ready"
    /\ scenario = NoScenario
    /\ idx = 0
    /\ attempt = 0
    /\ last_error = None
    /\ screenshot_before = None
    /\ scenario_metadata = <<>>
    /\ action_results = <<>>
    /\ global_errors = <<>>
    /\ returned = NoReport
    /\ raised = FALSE
    /\ log = <<>>
    /\ recording_state = InitialRecordingState
    /\ now = 0
    /\ reply = NoReply

\* replay() is one sequential call: as long as it has a next step, the step
\* is taken
SpecLive == InitLive /\ [][Next]_vars /\ WF_vars(Next)

(***************************************************************************)
(* Recording sessions and a replay in one server                           *)
(***************************************************************************)
RecordingConfig ==
    [retry_attempts : 1..MaxRetryAttempts, retry_delay_ms : {500},
     capture_screenshots : BOOLEAN, screenshot_on_error : {FALSE},
     speed_multiplier : {[num |-> 1, den |-> 1]},
     stop_on_error : {FALSE}, wait_for_screen_on : BOOLEAN]

RecordingFiles ==
    {[exists |-> TRUE, valid_json |-> TRUE,
      document |-> OldShape(<<[tool |-> "click",
                               params |-> [selector |-> "Login"]]>>)]}

SessionNames == {"login", "checkout"}

InitRecording ==
    /\ config \in RecordingConfig
    /\ device_id = "emulator-5554"
    /\ file \in RecordingFiles
    /\ camera \in Cameras
    /\ pc = "ready"
    /\ scenario = NoScenario
    /\ idx = 0
    /\ attempt = 0
    /\ last_error = None
    /\ screenshot_before = None
    /\ scenario_metadata = <<>>
    /\ action_results = <<>>
    /\ global_errors = <<>>
    /\ returned = NoReport
    /\ raised = FALSE
    /\ log = <<>>
    /\ recording_state = InitialRecordingState
    /\ now = 0
    /\ reply = NoReply
    /\ tool_values = {"True"}

\* a call of the start_recording tool while no replay runs
StartRecording ==
    /\ pc \in {"ready", "done"}
    /\ recording_state.active \/ now < MaxClock
    /\ \E session_name \in SessionNames, capture_screenshots \in BOOLEAN,
          mkdir \in {"return", "raise"} :
         LET r == start_recording(recording_state, now, session_name,
                                  capture_screenshots, None, mkdir)
         IN  /\ recording_state' = r.state
             /\ now' = r.clock
             /\ reply' = [call |-> "start_recording", outcome |-> r.reply]
    /\ UNCHANGED <<config, device_id, file, camera, pc, scenario, idx, attempt,
                   last_error, screenshot_before, scenario_metadata,
                   action_results, global_errors, returned, raised, log>>
    /\ UNCHANGED tool_values

\* a call of the stop_recording tool while no replay runs
StopRecording ==
    /\ pc \in {"ready", "done"}
    /\ ~recording_state.active \/ now < MaxClock
    /\ \E info \in {"return", "raise"}, save \in {"return", "raise"} :
         LET r == stop_recording(recording_state, now, info, save)
         IN  /\ recording_state' = r.state
             /\ now' = r.clock
             /\ reply' = [call |-> "stop_recording", outcome |-> r.reply,
                          written |-> r.written]
    /\ UNCHANGED <<config, device_id, file, camera, pc, scenario, idx, attempt,
                   last_error, screenshot_before, scenario_metadata,
                   action_results, global_errors, returned, raised, log>>
    /\ UNCHANGED tool_values

\* a call of the click tool by the client while no replay runs
CallTool ==
    /\ pc \in {"ready", "done"}
    /\ recording_state.active =>
           now < MaxClock /\ Len(recording_state.actions) < MaxRecorded
    /\ \E outcome \in {"True", "False"} :
         LET r == click("Login", None, outcome)
         IN  /\ Recorded(r.calls)
             /\ reply' = [call |-> "click", outcome |-> Return(r.value)]
    /\ UNCHANGED <<config, device_id, file, camera, pc, scenario, idx, attempt,
                   last_error, screenshot_before, scenario_metadata,
                   action_results, global_errors, returned, raised, log>>
    /\ UNCHANGED tool_values

NextRecording ==
    \/ StartRecording
    \/ StopRecording
    \/ CallTool
    \/ Next

SpecRecording == InitRecording /\ [][NextRecording]_vars

(***************************************************************************)
(* Reading the log and the file                                            *)
(***************************************************************************)
LoadFails == load_scenario(file).raised

\* the actions of the scenario as load_scenario returns it
LoadedActions == ActionsOf(load_scenario(file).value)

\* positions of the log entries of operation op about action i
Entries(op, i) ==
    {p \in 1..Len(log) :
        log[p].op = op /\ "idx" \in DOMAIN log[p] /\ log[p].idx = i}

Positions(op) == {p \in 1..Len(log) : log[p].op = op}

\* positions of the dispatch calls of action i that raised / returned
LastOf(S) == CHOOSE x \in S : \A y \in S : y <= x

\* the number of a dispatch call among the dispatch calls of the log
CallNumber(p) == Cardinality({q \in Positions("dispatch") : q <= p})

FailedDispatches(i) == {p \in Entries("dispatch", i) : ~log[p].ok}
GoodDispatches(i) == {p \in Entries("dispatch", i) : log[p].ok}

C3_SuccessAfterRetries ==
    \A i \in 0..(MaxActions - 1) :
        GoodDispatches(i) # {} =>
            LET k == Cardinality(FailedDispatches(i))
            IN  /\ \A p \in FailedDispatches(i), q \in GoodDispatches(i) : p < q
                /\ k < config.retry_attempts
                /\ Cardinality(Entries("dispatch", i)) = k + 1
                /\ Len(action_results) >= i + 1
                /\ action_results[i + 1].action_index = i
                /\ action_results[i + 1].status = "SUCCESS"
                /\ action_results[i + 1].metrics.retry_count = k

C3_Witness ==
    /\ Cardinality(FailedDispatches(0)) = 1
    /\ Cardinality(GoodDispatches(0)) = 1
    /\ Len(action_results) >= 1
    /\ action_results[1].status = "SUCCESS"
    /\ action_results[1].metrics.retry_count = 1

(***************************************************************************)
(* C4: when dispatch raises on every attempt, execute_with_retry gives a   *)
(* result with status FAILED and metrics.retry_count = retry_attempts,     *)
(* dispatch was called exactly retry_attempts times, and no backoff sleep  *)
(* follows the last failed attempt.                                        *)
(***************************************************************************)
C4_RetriesExhausted ==
    \A i \in 0..(MaxActions - 1) :
        (Len(action_results) >= i + 1 /\ GoodDispatches(i) = {}) =>
            /\ action_results[i + 1].action_index = i
            /\ action_results[i + 1].status = "FAILED"
            /\ action_results[i + 1].metrics.retry_count = config.retry_attempts
            /\ Cardinality(Entries("dispatch", i)) = config.retry_attempts
            /\ \A p \in Entries("backoff", i) :
                  \E q \in Entries("dispatch", i) : q > p

C4_Witness ==
    /\ config.retry_attempts = 2
    /\ Len(action_results) >= 1
    /\ action_results[1].status = "FAILED"
    /\ Cardinality(FailedDispatches(0)) = 2
    /\ Cardinality(Entries("backoff", 0)) = 1

(***************************************************************************)
(* C5: replay() never raises, whatever fails (loading, dispatch, the       *)
(* action itself, a screenshot, device preparation): it returns a report   *)
(* map, in which a load failure shows as success = false with an entry in  *)
(* errors, an action whose attempts all failed shows as an entry with      *)
(* status "failed" and success = false, and a failed capture as a null     *)
(* screenshot path.                                                        *)
(***************************************************************************)
C5_NeverRaises ==
    /\ ~raised
    /\ pc = "done" =>
        /\ returned.generated
        /\ LoadFails => (~returned.success /\ Len(returned.errors) >= 1)
        /\ \A k \in 1..Len(returned.action_results) :
              LET r == returned.action_results[k]
              IN  /\ GoodDispatches(k - 1) = {} =>
                        (r.status = "failed" /\ ~returned.success)
                  /\ FailedDispatches(k - 1) # {} /\ GoodDispatches(k - 1) = {} =>
                        r.error # None
                  /\ (\E p \in Entries("screenshot", k - 1) :
                          log[p].stage = "before" /\ ~log[p].ok) =>
                        r.screenshot_before = None
                  /\ (\E p \in Entries("screenshot", k - 1) :
                          log[p].stage # "before" /\ ~log[p].ok) =>
                        r.screenshot_after = None

C5_Witness ==
    /\ pc = "done"
    /\ returned.generated
    /\ \E p \in Positions("screen_on") : ~log[p].ok
    /\ \E p \in Entries("screenshot", 0) : ~log[p].ok
    /\ FailedDispatches(0) # {}
    /\ GoodDispatches(0) = {}
    /\ GoodDispatches(1) # {}

C7_SuccessIffNoFailure ==
    pc = "generated" =>
        /\ returned.success \in BOOLEAN
        /\ returned.success <=>
              /\ \A k \in 1..Len(action_results) :
                    action_results[k].status # "FAILED"
              /\ global_errors = <<>>
        /\ (action_results = <<>> /\ global_errors = <<>>) => returned.success

C7_Witness ==
    /\ pc = "generated"
    /\ Len(action_results) = 2
    /\ action_results[1].status = "TIMEOUT"
    /\ action_results[2].status = "SKIPPED"
    /\ global_errors = <<>>
    /\ returned.success

\* the position of the call of execute_with_retry for action i, 0 if none
ExecutedAt(i) ==
    IF Entries("execute", i) = {} THEN 0
    ELSE CHOOSE p \in Entries("execute", i) : TRUE

\* the action whose execution most recently began before log position p
ActionBefore(p) ==
    Cardinality({q \in Positions("execute") : q < p}) - 1

\* the inter-action sleeps logged between the end of action i and the start
\* of the next one (or the end of the log)
DelaysAfter(i) == {p \in Positions("delay") : ActionBefore(p) = i}

(***************************************************************************)
(* C8: the report holds the results in the order the actions were          *)
(* attempted, one result per attempted action, and no step of the replay   *)
(* overwrites or removes a result that is already there.                   *)
(***************************************************************************)
C8_ResultsInOrder ==
    \A k \in 1..Len(action_results) :
        /\ action_results[k].action_index = k - 1
        /\ Cardinality(Entries("execute", k - 1)) = 1
        /\ k > 1 => ExecutedAt(k - 2) < ExecutedAt(k - 1)

C8_OnePerAttempt ==
    \A i \in 0..(MaxActions - 1) :
        Entries("execute", i) # {} =>
            IF pc = "attempt" /\ idx = i
            THEN Len(action_results) = i
            ELSE Len(action_results) >= i + 1

C8_AppendOnly ==
    /\ Len(action_results') \in {Len(action_results), Len(action_results) + 1}
    /\ SubSeq(action_results', 1, Len(action_results)) = action_results
    /\ Len(action_results') = Len(action_results) + 1 =>
          /\ pc = "attempt"
          /\ action_results'[Len(action_results')].action_index = idx

C8_OrderedAppendOnly ==
    /\ [](C8_ResultsInOrder /\ C8_OnePerAttempt)
    /\ [][C8_AppendOnly]_vars

C8_Witness ==
    /\ pc = "done"
    /\ Len(action_results) = 2
    /\ action_results[1].status = "FAILED"
    /\ action_results[2].status = "SUCCESS"
    /\ action_results[2].metrics.retry_count = 1

(***************************************************************************)
(* C9: an inter-action delay sleep happens only between two consecutive    *)
(* executed actions and is the next action's delay_before_ms: none before  *)
(* the first action, none after the last action of the scenario, none      *)
(* after the action at which stop_on_error ends the replay; a replay that  *)
(* executes M actions sleeps at most M - 1 times between actions.          *)
(***************************************************************************)
C9_DelayOnlyBetweenActions ==
    /\ \A p \in Positions("delay") :
          LET i == ActionBefore(p)
          IN  /\ i >= 0
              /\ Len(action_results) >= i + 1
              /\ ~(config.stop_on_error
                    /\ action_results[i + 1].status # "SUCCESS")
              /\ i + 1 < Len(LoadedActions)
              /\ Cardinality(DelaysAfter(i)) = 1
              /\ Get(LoadedActions[i + 2], "delay_before_ms", 0) > 0
              /\ log[p].ms * config.speed_multiplier.num
                    = Get(LoadedActions[i + 2], "delay_before_ms", 0)
                        * config.speed_multiplier.den
              /\ IF pc = "exec" /\ idx = i + 1
                 THEN p = Len(log)
                 ELSE ExecutedAt(i + 1) > p
    /\ pc = "done" =>
          LET M == Cardinality(Positions("execute"))
          IN  /\ M = Len(action_results)
              /\ Cardinality(Positions("delay")) <= IF M = 0 THEN 0 ELSE M - 1

C9_Witness ==
    /\ pc = "done"
    /\ Len(action_results) = 2
    /\ Cardinality(Positions("delay")) = 1
    /\ log[Len(log)].op # "delay"

(***************************************************************************)
(* C10: the inter-action sleep lasts the next action's                     *)
(* delay_before_ms / 1000 / speed_multiplier seconds (2000 ms: 1.0 s at    *)
(* multiplier 2.0, 4.0 s at multiplier 0.5), and no sleep is requested     *)
(* when that is <= 0, which includes an absent delay_before_ms.            *)
(***************************************************************************)
C10_ScaledDelay ==
    \A i \in 0..(MaxActions - 2) :
        (Entries("execute", i) # {} /\ Entries("execute", i + 1) # {}) =>
            LET delay_ms == IF "delay_before_ms" \in DOMAIN LoadedActions[i + 2]
                            THEN LoadedActions[i + 2].delay_before_ms ELSE 0
                speed == config.speed_multiplier
                slept == {log[p].ms : p \in DelaysAfter(i)}
            IN  /\ delay_ms * speed.den <= 0 => slept = {}
                /\ delay_ms * speed.den > 0 =>
                      /\ Cardinality(DelaysAfter(i)) = 1
                      /\ \A ms \in slept : ms * speed.num = delay_ms * speed.den
                /\ (delay_ms = 2000 /\ speed = [num |-> 2, den |-> 1]) =>
                      slept = {1000}
                /\ (delay_ms = 2000 /\ speed = [num |-> 1, den |-> 2]) =>
                      slept = {4000}

C10_Witness ==
    /\ pc = "done"
    /\ ~LoadFails
    /\ config.speed_multiplier = [num |-> 1, den |-> 2]
    /\ Len(action_results) = 2
    /\ Get(LoadedActions[2], "delay_before_ms", 0) = 2000
    /\ \E p \in Positions("delay") : log[p].ms = 4000

(***************************************************************************)
(* C11: within one execute_with_retry call the backoff sleep after the     *)
(* failed attempt of zero-based index k (k < retry_attempts - 1) lasts     *)
(* retry_delay_ms * 2^k milliseconds, so each backoff sleep is twice the   *)
(* one before it, and exactly one backoff sleep lies between two           *)
(* consecutive dispatch attempts.                                          *)
(***************************************************************************)
C11_ExponentialBackoff ==
    \A i \in 0..(MaxActions - 1) :
        LET D == Entries("dispatch", i)
            B == Entries("backoff", i)
        IN  /\ \A p \in D :
                  (~log[p].ok /\ log[p].attempt < config.retry_attempts - 1) =>
                      /\ p + 1 \in B
                      /\ log[p + 1].ms
                            = config.retry_delay_ms * (2 ^ log[p].attempt)
            /\ \A p \in B :
                  /\ p - 1 \in D
                  /\ ~log[p - 1].ok
                  /\ log[p - 1].attempt < config.retry_attempts - 1
            /\ \A p \in D, q \in D :
                  (p < q /\ ~\E r \in D : p < r /\ r < q) =>
                      /\ log[q].attempt = log[p].attempt + 1
                      /\ q = p + 2
                      /\ p + 1 \in B
            /\ \A p \in B, q \in B :
                  (p < q /\ ~\E r \in B : p < r /\ r < q) =>
                      log[q].ms = 2 * log[p].ms

C11_Witness ==
    /\ pc = "done"
    /\ config.retry_attempts = 4
    /\ config.retry_delay_ms = 500
    /\ Cardinality(FailedDispatches(0)) = 4
    /\ {log[p].ms : p \in Entries("backoff", 0)} = {500, 1000, 2000}
    /\ action_results[1].status = "FAILED"

(***************************************************************************)
(* C12: an action whose tool name is not registered is dispatched once,    *)
(* is not retried, takes no backoff sleep, and is recorded as FAILED with  *)
(* the unknown-tool error message (retry_attempts >= 1, so that there is   *)
(* an attempt at all).                                                     *)
(***************************************************************************)
C12_UnknownToolNotRetried ==
    \A i \in 0..(MaxActions - 1) :
        (~LoadFails /\ config.retry_attempts >= 1 /\ Entries("execute", i) # {}
            /\ LoadedActions[i + 1].tool = "open_portal") =>
            /\ Cardinality(Entries("dispatch", i)) <= 1
            /\ Entries("backoff", i) = {}
            /\ Len(action_results) >= i + 1 =>
                  /\ Cardinality(Entries("dispatch", i)) = 1
                  /\ action_results[i + 1].status = "FAILED"
                  /\ action_results[i + 1].error
                        = "Tool 'open_portal' not found in registry"

(***************************************************************************)
(* C13: dispatch of a registered tool leaves the parameter map its caller  *)
(* passed unchanged: the rename of filepath to filename for screenshot is  *)
(* made on a copy.  The caller here is replay(), whose maps are those of   *)
(* the loaded scenario.                                                    *)
(***************************************************************************)
C13_CallerParamsUnchanged ==
    (scenario # NoScenario /\ ~LoadFails) =>
        \A k \in 1..Len(LoadedActions) :
            LoadedActions[k].tool \in {"click", "screenshot"} =>
                ActionsOf(scenario)[k].params = LoadedActions[k].params

\* the document of the file, for the claims about load_scenario
Doc == file.document
HasKey(k) == file.exists /\ file.valid_json /\ k \in DOMAIN Doc
NewShapeFile == HasKey("schema_version") /\ HasKey("metadata")
NamedNewShapeFile ==
    /\ NewShapeFile
    /\ "name" \in DOMAIN Doc["metadata"]
    /\ Doc["metadata"]["name"] # ""
OldShapeFile == ~NewShapeFile /\ HasKey("session_name") /\ HasKey("device_id")
LoadReturned == pc = "loaded" /\ ~raised
LoadRaised == pc = "loaded" /\ raised

(***************************************************************************)
(* C14: for both shapes, load_scenario of a file that has no `actions` key *)
(* or whose `actions` is not a list raises ValueError (the spec's          *)
(* ValidationError) with a message about the actions field, and returns no *)
(* scenario.  The file is otherwise valid: of the old shape, or of the new *)
(* shape with a metadata.name.                                             *)
(***************************************************************************)
C14_ActionsRequired ==
    (pc = "loaded" /\ (NamedNewShapeFile \/ OldShapeFile)
        /\ (~HasKey("actions") \/ ~Doc["actions"].is_list)) =>
        /\ raised
        /\ scenario = NoScenario
        /\ last_error.exc = "ValueError"
        /\ last_error.error \in
              {"Invalid scenario: missing 'actions' field",
               "Invalid scenario: 'actions' must be a list"}

\* the device id a new-shape document carries: the first non-empty one of
\* metadata.device.serial, metadata.device.id and the first action's
\* device_id parameter, None when there is none
CarriedDeviceId ==
    LET device == Get(Doc["metadata"], "device", [k \in {} |-> None])
        serial == Get(device, "serial", "")
        id == Get(device, "id", "")
        items == IF HasKey("actions") THEN Doc["actions"].items ELSE <<>>
        first == IF Len(items) > 0
                 THEN Get(Get(items[1], "params", [k \in {} |-> None]),
                          "device_id", "")
                 ELSE ""
    IN  IF serial # "" THEN serial
        ELSE IF id # "" THEN id
        ELSE IF first # "" THEN first
        ELSE None

\* a new-shape file that is valid: metadata.name and a list of actions
ValidNewShapeFile ==
    NamedNewShapeFile /\ HasKey("actions") /\ Doc["actions"].is_list

(***************************************************************************)
(* C15: load_scenario of a valid new-shape file and of the old-shape file  *)
(* that carries the same session name, device id and actions return        *)
(* scenarios with the same session_name, device_id and actions (same       *)
(* elements in the same order).                                            *)
(***************************************************************************)
C15_ShapesNormalizeAlike ==
    (pc = "loaded" /\ ValidNewShapeFile /\ CarriedDeviceId # None) =>
        LET counterpart ==
                [exists |-> TRUE, valid_json |-> TRUE,
                 document |-> [session_name |-> Doc["metadata"]["name"],
                               device_id |-> CarriedDeviceId,
                               actions |-> Doc["actions"]]]
            old == load_scenario(counterpart)
        IN  /\ ~raised
            /\ ~old.raised
            /\ scenario["session_name"] = old.value["session_name"]
            /\ scenario["device_id"] = old.value["device_id"]
            /\ scenario["actions"] = old.value["actions"]
            /\ old.value["session_name"] = counterpart.document["session_name"]
            /\ old.value["device_id"] = counterpart.document["device_id"]
            /\ old.value["actions"] = counterpart.document["actions"]

C15_Witness ==
    /\ LoadReturned
    /\ ValidNewShapeFile
    /\ Len(Doc["actions"].items) = 2
    /\ CarriedDeviceId = "emulator-5554"
    /\ Len(scenario["actions"].items) = 2
    /\ scenario["device_id"] = "emulator-5554"

(***************************************************************************)
(* C16 as stated: the device id of a new-shape scenario is                 *)
(* metadata.device.serial if that key is present, otherwise                *)
(* metadata.device.id if present, otherwise the first action's device_id   *)
(* parameter, otherwise "unknown".                                         *)
(***************************************************************************)
C16_DeviceIdByPresence ==
    (LoadReturned /\ NewShapeFile) =>
        LET device == Get(Doc["metadata"], "device", [k \in {} |-> None])
            items == IF HasKey("actions") THEN Doc["actions"].items ELSE <<>>
            params == IF Len(items) > 0
                      THEN Get(items[1], "params", [k \in {} |-> None])
                      ELSE [k \in {} |-> None]
        IN  scenario["device_id"] =
                IF "serial" \in DOMAIN device THEN device["serial"]
                ELSE IF "id" \in DOMAIN device THEN device["id"]
                ELSE IF "device_id" \in DOMAIN params THEN params["device_id"]
                ELSE "unknown"

(***************************************************************************)
(* C16, amended: the device id of a new-shape scenario is the first        *)
(* non-empty one of metadata.device.serial, metadata.device.id and the     *)
(* first action's device_id parameter, and "unknown" when there is none; a *)
(* source is passed over only when it is absent or empty.                  *)
(***************************************************************************)
C16_DeviceIdPriority ==
    (LoadReturned /\ NewShapeFile) =>
        LET device == Get(Doc["metadata"], "device", [k \in {} |-> None])
            serial == Get(device, "serial", "")
            id == Get(device, "id", "")
            items == IF HasKey("actions") THEN Doc["actions"].items ELSE <<>>
            first == IF Len(items) > 0
                     THEN Get(Get(items[1], "params", [k \in {} |-> None]),
                              "device_id", "")
                     ELSE ""
        IN  /\ serial # "" => scenario["device_id"] = serial
            /\ (serial = "" /\ id # "") => scenario["device_id"] = id
            /\ (serial = "" /\ id = "" /\ first # "") =>
                  scenario["device_id"] = first
            /\ (serial = "" /\ id = "" /\ first = "") =>
                  scenario["device_id"] = "unknown"

C16_Witness ==
    /\ LoadReturned
    /\ NewShapeFile
    /\ "device" \in DOMAIN Doc["metadata"]
    /\ "serial" \in DOMAIN Doc["metadata"]["device"]
    /\ Doc["metadata"]["device"]["serial"] = ""
    /\ scenario["device_id"] = "R58M0000"
    /\ Len(scenario["actions"].items) = 2

(***************************************************************************)
(* C17: load_scenario returns a scenario only for a file that has both     *)
(* schema_version and metadata, with a metadata.name, or has both          *)
(* session_name and device_id; a file of neither shape, and a new-shape    *)
(* file without metadata.name, raise ValueError (the spec's                *)
(* ValidationError) and no scenario is returned.                           *)
(***************************************************************************)
C17_ShapeRequired ==
    /\ LoadReturned =>
          \/ NamedNewShapeFile
          \/ HasKey("session_name") /\ HasKey("device_id")
    /\ (pc = "loaded" /\ file.exists /\ file.valid_json
            /\ ~NewShapeFile /\ ~OldShapeFile) =>
          /\ raised
          /\ scenario = NoScenario
          /\ last_error = [exc |-> "ValueError",
                           error |-> "Invalid scenario format"]
    /\ (pc = "loaded" /\ NewShapeFile /\ ~NamedNewShapeFile) =>
          /\ raised
          /\ scenario = NoScenario
          /\ last_error.exc = "ValueError"

Shots(i, stages) ==
    {p \in Entries("screenshot", i) : log[p].stage \in stages}

\* the path a capture of action i at the stage gives when it succeeds
PathOf(i, stage) ==
    "replay_screenshots/action_00" \o ToString(i) \o "_" \o stage \o ".png"

(***************************************************************************)
(* C19: a screenshot capture that fails (raises or returns false), at any  *)
(* stage, does not change the outcome of the action: status, result,       *)
(* error, retry_count and the number of dispatch calls follow from what    *)
(* the dispatch calls did alone, every executed action gets its result, no *)
(* global error is recorded, and the path of a failed capture is null      *)
(* while the path of a successful one is its file name.                    *)
(***************************************************************************)
C19_ScreenshotFailureHarmless ==
    ~LoadFails =>
        /\ global_errors = <<>>
        /\ \A i \in 0..(MaxActions - 1) :
              (Entries("execute", i) # {} /\ ~(pc \in {"exec", "attempt"} /\ idx = i))
                  => Len(action_results) >= i + 1
        /\ \A k \in 1..Len(action_results) :
              LET r == action_results[k]
                  i == k - 1
                  ok == GoodDispatches(i) # {}
                  failed == Cardinality(FailedDispatches(i))
                  before == Shots(i, {"before"})
                  after == Shots(i, {"after", "error"})
              IN  /\ r.status = IF ok THEN "SUCCESS" ELSE "FAILED"
                  /\ r.result = IF ok THEN "True" ELSE None
                  /\ r.error =
                        IF ok \/ failed = 0 THEN None
                        ELSE IF LoadedActions[k].tool = "open_portal"
                        THEN "Tool 'open_portal' not found in registry"
                        ELSE ToolError(CallNumber(LastOf(FailedDispatches(i))))
                  /\ r.metrics.retry_count =
                        IF ok THEN failed ELSE config.retry_attempts
                  /\ Cardinality(Entries("dispatch", i)) =
                        IF ok THEN failed + 1 ELSE config.retry_attempts
                  /\ r.screenshot_before =
                        IF \E p \in before : log[p].ok
                        THEN PathOf(i, "before") ELSE None
                  /\ Cardinality(after) <= 1
                  /\ \A p \in after :
                        r.screenshot_after =
                            IF log[p].ok THEN PathOf(i, log[p].stage) ELSE None
                  /\ after = {} => r.screenshot_after = None

C19_Witness ==
    /\ pc = "done"
    /\ camera = "broken"
    /\ Len(action_results) = 2
    /\ \E p \in Shots(0, {"before"}) : ~log[p].ok
    /\ \E p \in Shots(0, {"after"}) : ~log[p].ok
    /\ \E p \in Shots(1, {"error"}) : ~log[p].ok
    /\ action_results[1].status = "SUCCESS"
    /\ action_results[1].metrics.retry_count = 1
    /\ action_results[1].screenshot_before = None
    /\ action_results[1].screenshot_after = None
    /\ action_results[2].status = "FAILED"
    /\ action_results[2].screenshot_after = None

\* the log position at which the current replay() call began
CallBegan ==
    LET again == Positions("replay")
    IN  IF again = {} THEN 0
        ELSE CHOOSE p \in again : \A q \in again : q <= p

(***************************************************************************)
(* C20: the report a replay() call returns holds only the action results   *)
(* and the global errors of that call, also when replay() is called more   *)
(* than once on the same engine: one result per action the call executed,  *)
(* and one error if the call's load failed, none otherwise.                *)
(***************************************************************************)
C20_ReportOfThisCallOnly ==
    pc = "done" =>
        /\ Len(returned.action_results)
              = Cardinality({p \in Positions("execute") : p > CallBegan})
        /\ returned.execution.total_actions = Len(returned.action_results)
        /\ Len(returned.errors) = IF LoadFails THEN 1 ELSE 0

\* replay() is past device preparation: the loop over the actions has been
\* entered, or the replay is over after a scenario that loaded
PastPreparation == ~LoadFails /\ pc \in {"exec", "attempt", "done"}

(***************************************************************************)
(* C21 as stated: with wait_for_screen_on a replay issues exactly one      *)
(* screen-on request, after the scenario has loaded and before the first   *)
(* dispatch; without it, none.                                             *)
(***************************************************************************)
C21_ScreenOnOnce ==
    /\ Cardinality(Positions("screen_on")) <= 1
    /\ PastPreparation =>
          Cardinality(Positions("screen_on")) =
              IF config.wait_for_screen_on THEN 1 ELSE 0
    /\ \A p \in Positions("screen_on") :
          /\ ~LoadFails
          /\ scenario # NoScenario
          /\ \A q \in Positions("dispatch") : p < q

(***************************************************************************)
(* C21, amended: with wait_for_screen_on and a device id given to the      *)
(* engine, a replay issues exactly one screen-on request, after the        *)
(* scenario has loaded and before the first action is executed or          *)
(* dispatched; without wait_for_screen_on, or without a device id, or when *)
(* loading fails, it issues none.                                          *)
(***************************************************************************)
C21_ScreenOnOnceForDevice ==
    /\ Cardinality(Positions("screen_on")) <= 1
    /\ PastPreparation =>
          Cardinality(Positions("screen_on")) =
              IF config.wait_for_screen_on /\ device_id \notin {None, ""}
              THEN 1 ELSE 0
    /\ ~PastPreparation => Positions("screen_on") = {}
    /\ \A p \in Positions("screen_on") :
          /\ p = 1
          /\ scenario # NoScenario
          /\ \A q \in Positions("dispatch") \cup Positions("execute") : p < q

C21_Witness ==
    /\ pc = "done"
    /\ config.wait_for_screen_on
    /\ device_id = "emulator-5554"
    /\ Cardinality(Positions("screen_on")) = 1
    /\ Cardinality(Positions("dispatch")) >= 2
    /\ Len(action_results) = 2

\* the 1-based positions of `actions` the loop of replay() gets to execute:
\* those with nothing but objects up to them and no stopping result before
Executable(k) ==
    /\ \A j \in 1..k : IsObject(ActionsOf(scenario)[j])
    /\ \A j \in 1..(k - 1) :
         j <= Len(action_results)
             => ~stops_replay(action_results[j], config.stop_on_error)

ExecutedOnce(k) ==
    Cardinality({p \in Positions("execute") : log[p].idx = k - 1}) = 1

ScreenOnFailed == \E p \in Positions("screen_on") : ~log[p].ok

\* C22: a screen-on request that fails during device preparation is not
\* fatal: replay() still returns a report, no global error is added for it
\* (the report has no global error at all when every element of `actions` is
\* an object), and when the replay is over exactly the actions that a replay
\* with a successful preparation executes have been executed and reported,
\* each once: every action up to the first stopping failure.
C22_ScreenOnFailureNotFatal ==
    ScreenOnFailed =>
        /\ log[1] = [op |-> "screen_on", ok |-> FALSE]
        /\ Positions("settle") = {}
        /\ \A k \in 1..Len(global_errors) :
             global_errors[k] = "Replay error: 'str' object has no attribute 'get'"
        /\ (\A k \in 1..Len(ActionsOf(scenario)) : IsObject(ActionsOf(scenario)[k]))
             => global_errors = <<>>
        /\ pc = "done" =>
             /\ ~raised
             /\ returned.generated
             /\ returned.errors = global_errors
             /\ \A k \in 1..Len(ActionsOf(scenario)) :
                  /\ k <= Len(action_results) <=> Executable(k)
                  /\ Executable(k) => ExecutedOnce(k)

C22_Witness ==
    /\ pc = "done"
    /\ ScreenOnFailed
    /\ Len(action_results) = 2
    /\ global_errors = <<>>
    /\ returned.success

\* the loop of replay() was left by an exception: the replay is over, the
\* scenario had loaded, and the action after the last result was neither
\* executed to a result nor cut off by a stopping failure
LoopAbandoned ==
    /\ pc = "done"
    /\ scenario # NoScenario
    /\ Len(action_results) < Len(ActionsOf(scenario))
    /\ action_results # <<>> =>
         ~stops_replay(action_results[Len(action_results)], config.stop_on_error)

\* C23: when an exception escapes the loop of replay() while action i is
\* processed, replay() returns a report that holds the results appended so
\* far, in order (result k is that of action k-1) and as they were appended,
\* among them those of actions 0..i-1; nothing of an action after i is
\* executed or dispatched; exactly one global error is recorded; and the
\* report's success is false, whatever the statuses of the results.
C23_ExceptionInLoop ==
    LoopAbandoned =>
        /\ ~raised
        /\ returned.generated
        /\ Len(global_errors) = 1
        /\ returned.errors = global_errors
        /\ returned.success = FALSE
        /\ Len(action_results) \in {idx, idx + 1}
        /\ Len(returned.action_results) = Len(action_results)
        /\ \A k \in 1..Len(action_results) :
             /\ action_results[k].action_index = k - 1
             /\ returned.action_results[k] = to_dict(action_results[k])
        /\ returned.execution.total_actions = Len(action_results)
        /\ \A p \in Positions("execute") \cup Positions("dispatch") :
             log[p].idx <= idx

C23_Witness ==
    /\ LoopAbandoned
    /\ Len(action_results) = 1
    /\ action_results[1].status = "SUCCESS"
    /\ returned.execution.failed_actions = 0
    /\ returned.success = FALSE
    /\ Len(returned.errors) = 1

\* the failed dispatch attempts of the action with 1-based position k
FailedAttempts(k) ==
    Cardinality({p \in Positions("dispatch") : log[p].idx = k - 1 /\ ~log[p].ok})

\* the sum of metrics.retry_count over the first n accumulated results that
\* have metrics
RECURSIVE RetryCountsUpTo(_)
RetryCountsUpTo(n) ==
    IF n = 0 THEN 0
    ELSE RetryCountsUpTo(n - 1)
         + (IF action_results[n].metrics.present
            THEN action_results[n].metrics.retry_count ELSE 0)

\* C24: the report's total_retries is the sum of metrics.retry_count over the
\* accumulated results that have metrics, and in a replay the retry count of
\* a result is the number of failed attempts of its action when the action
\* succeeded and retry_attempts when it exhausted its attempts.
C24_TotalRetries ==
    (pc = "done" /\ returned.generated) =>
        /\ returned.execution.total_retries = RetryCountsUpTo(Len(action_results))
        /\ \A k \in 1..Len(action_results) :
             /\ action_results[k].metrics.present
             /\ action_results[k].metrics.retry_count =
                    IF action_results[k].status = "SUCCESS"
                    THEN FailedAttempts(k)
                    ELSE config.retry_attempts

C24_Witness ==
    /\ pc = "done"
    /\ returned.generated
    /\ Len(action_results) = 2
    /\ action_results[1].status = "SUCCESS"
    /\ FailedAttempts(1) = 1
    /\ action_results[2].status = "FAILED"
    /\ config.retry_attempts = 2
    /\ returned.execution.total_retries = 3

\* C25: when every attempt of an action fails (at least one attempt made),
\* the error of its FAILED result is the message raised by the last attempt,
\* the retry_attempts-th one, as raised; with two or more attempts on a
\* registered tool it is not the message of the first attempt.
C25_LastErrorPreserved ==
    \A k \in 1..Len(action_results) :
        LET r == action_results[k]
            failed == FailedDispatches(k - 1)
            last == LastOf(failed)
        IN  (r.status = "FAILED" /\ failed # {}) =>
                /\ log[last].attempt = config.retry_attempts - 1
                /\ Cardinality(failed) = config.retry_attempts
                /\ r.error =
                      IF r.tool_name \in ToolRegistry
                      THEN ToolError(CallNumber(last))
                      ELSE "Tool '" \o r.tool_name \o "' not found in registry"
                /\ (r.tool_name \in ToolRegistry /\ config.retry_attempts >= 2)
                      => r.error # ToolError(CallNumber(last) - 1)

C25_Witness ==
    /\ pc = "done"
    /\ config.retry_attempts = 3
    /\ Len(action_results) = 1
    /\ action_results[1].status = "FAILED"
    /\ action_results[1].error = "device error 3"

\* a step of a running replay() call
ReplayStep == pc # "done" /\ (pc # "ready" \/ pc' # "ready")

\* C26: no step of a running replay (the tools it dispatches, its screenshot
\* captures, the screen-on call of the device preparation) appends an
\* action to the recording state or moves the action counter.
C26_ReplayRecordsNothing ==
    [][ReplayStep =>
          /\ recording_state'.actions = recording_state.actions
          /\ recording_state'.action_counter = recording_state.action_counter]_vars

AlreadyInProgress ==
    [error |-> "Recording already in progress",
     current_session |-> recording_state.session_name]

\* C27: a start_recording call made while a recording is active returns the
\* error that names the current session and leaves the whole recording
\* state (session name, recorded actions, action counter, start time and the
\* rest) as it was, so the active session stays the only one.
C27_OneSessionAtATime ==
    [][(StartRecording /\ recording_state.active) =>
          /\ recording_state' = recording_state
          /\ reply' = [call |-> "start_recording",
                       outcome |-> Return(AlreadyInProgress)]]_vars

C27_Witness ==
    /\ recording_state.active
    /\ reply = [call |-> "start_recording", outcome |-> Return(AlreadyInProgress)]
    /\ Len(recording_state.actions) = 1
    /\ recording_state.action_counter = 1

OneMoreAction(tool_name) ==
    /\ Len(recording_state'.actions) = Len(recording_state.actions) + 1
    /\ SubSeq(recording_state'.actions, 1, Len(recording_state.actions))
           = recording_state.actions
    /\ recording_state'.actions[Len(recording_state'.actions)].tool = tool_name
    /\ recording_state'.action_counter = recording_state.action_counter + 1

SameActions ==
    /\ recording_state'.actions = recording_state.actions
    /\ recording_state'.action_counter = recording_state.action_counter

Reported(i) == Len(action_results) >= i + 1

\* C29: within one execute_with_retry call, with capture_screenshots on
\* there is exactly one "before" capture, ahead of every dispatch attempt
\* (one, however many attempts follow), and exactly one "after" capture
\* when an attempt succeeded, right after that attempt and with no attempt
\* after it; an "error" capture happens only with screenshot_on_error on,
\* only when all retry_attempts attempts have failed and after the last of
\* them, at most once; with capture_screenshots off there is no "before"
\* and no "after" capture, so a successful action has no capture at all.
C29_ScreenshotStages ==
    \A i \in 0..(MaxActions - 1) :
        LET before == Shots(i, {"before"})
            after == Shots(i, {"after"})
            error == Shots(i, {"error"})
            attempts == Entries("dispatch", i)
            good == GoodDispatches(i)
        IN  Entries("execute", i) # {} =>
              /\ Cardinality(before) = IF config.capture_screenshots THEN 1 ELSE 0
              /\ \A b \in before : \A d \in attempts : b < d
              /\ Cardinality(after) =
                    IF config.capture_screenshots /\ good # {} THEN 1 ELSE 0
              /\ \A a \in after :
                    /\ a - 1 \in good
                    /\ \A d \in attempts : d < a
              /\ Cardinality(error) <= 1
              /\ error # {} =>
                    /\ config.screenshot_on_error
                    /\ good = {}
                    /\ Cardinality(attempts) = config.retry_attempts
                    /\ \A e \in error : \A d \in attempts : d < e
              /\ (Reported(i) /\ good = {}) =>
                    Cardinality(error) = IF config.screenshot_on_error THEN 1 ELSE 0
              /\ (~config.capture_screenshots /\ good # {}) =>
                    Entries("screenshot", i) = {}

C29_Witness ==
    /\ pc = "done"
    /\ config.capture_screenshots
    /\ config.screenshot_on_error
    /\ config.retry_attempts = 3
    /\ Cardinality(Entries("dispatch", 0)) = 3
    /\ Cardinality(Shots(0, {"before"})) = 1
    /\ Cardinality(Shots(0, {"after"})) = 1
    /\ Shots(0, {"error"}) = {}

\* the calls a step adds to the log that belong to an action: its start,
\* its dispatch attempts, its backoff sleeps and its screenshot captures
NewActionCalls ==
    {p \in (Len(log) + 1)..Len(log') : "idx" \in DOMAIN log'[p]}

\* C30: one action is in flight at a time. Every call a step makes for an
\* action (dispatch attempt, backoff sleep) is for the action whose index
\* is the number of results appended so far, so all attempts and sleeps of
\* action i are over, and its result is in the report, before anything of
\* action i+1 begins; a step appends at most one result, that of the
\* action in flight, in the step that ends its attempts, and the loop moves
\* to action i+1 only in that step.
C30_OneActionInFlight ==
    [][/\ \A p \in NewActionCalls : log'[p].idx = Len(action_results)
       /\ pc \in {"exec", "attempt"} => idx = Len(action_results)
       /\ Len(action_results') \in
              {Len(action_results), Len(action_results) + 1}
       /\ Len(action_results') = Len(action_results) + 1 =>
              /\ pc = "attempt"
              /\ action_results'[Len(action_results')].action_index = idx
              /\ SubSeq(action_results', 1, Len(action_results)) = action_results
       /\ (pc = "attempt" /\ pc' # "attempt") =>
              Len(action_results') = Len(action_results) + 1
       /\ idx' # idx =>
              /\ idx' = idx + 1
              /\ Len(action_results') = idx + 1]_vars

C30_Witness ==
    /\ pc = "attempt"
    /\ idx = 1
    /\ Len(action_results) = 1
    /\ Cardinality(Entries("dispatch", 0)) = 2
    /\ Cardinality(Entries("backoff", 0)) = 1
    /\ Cardinality(Entries("dispatch", 1)) = 1
    /\ \A p \in Entries("dispatch", 0) \cup Entries("backoff", 0) :
          \A q \in Entries("dispatch", 1) : p < q

\* C31: the parameters in the result of every executed action are the
\* parameters the scenario file records for that action, and the actions of
\* the loaded scenario stay as they were loaded while they are replayed,
\* for every tool, the screenshot actions recorded with `filepath` included.
C31_ParametersAsRecorded ==
    (scenario # NoScenario /\ ~LoadFails) =>
        /\ ActionsOf(scenario) = LoadedActions
        /\ \A k \in 1..Len(action_results) :
              action_results[k].parameters = Get(LoadedActions[k], "params", <<>>)

\* C32: the status of an action follows from whether dispatch raised, not
\* from what it returned: an attempt whose dispatch returns any value, True,
\* False or None, gives the result SUCCESS with that value and no error,
\* and is the last attempt of the action (no retry after it); the result is
\* FAILED only when no attempt returned.
C32_StatusByRaiseOnly ==
    \A k \in 1..Len(action_results) :
        LET r == action_results[k]
            good == GoodDispatches(k - 1)
            attempts == Entries("dispatch", k - 1)
        IN  /\ r.status = IF good # {} THEN "SUCCESS" ELSE "FAILED"
            /\ good # {} =>
                  /\ r.result \in tool_values
                  /\ r.error = None
                  /\ Cardinality(good) = 1
                  /\ \A p \in attempts : p <= LastOf(good)
                  /\ r.metrics.retry_count = Cardinality(attempts) - 1
            /\ good = {} => r.result = None

C32_Witness ==
    /\ pc = "done"
    /\ Len(action_results) = 2
    /\ action_results[1].status = "SUCCESS"
    /\ action_results[1].result = "False"
    /\ Cardinality(Entries("dispatch", 0)) = 1
    /\ action_results[2].status = "SUCCESS"
    /\ action_results[2].result = None
    /\ returned.success

\* the calls of operation op made by the current replay() call
CallsOfThisReplay(op) == {p \in Positions(op) : p > CallBegan}

\* C33: when a replay with retry_attempts >= 1 is over, the number of
\* dispatch calls made during that replay equals the total_retries of its
\* report plus its successful_actions, and is at most the number of actions
\* the replay executed times retry_attempts.
C33_DispatchCount ==
    (pc = "done" /\ returned.generated /\ config.retry_attempts >= 1) =>
        /\ Cardinality(CallsOfThisReplay("dispatch"))
              = returned.execution.total_retries
                    + returned.execution.successful_actions
        /\ Cardinality(CallsOfThisReplay("dispatch"))
              <= Cardinality(CallsOfThisReplay("execute")) * config.retry_attempts

\* C34: a replay of a finite scenario with a finite retry_attempts ends and
\* returns a report, given that every dispatch call, screenshot call and
\* sleep returns or raises.  Both loops are bounded: the attempts of an
\* action never exceed retry_attempts and the action index never leaves the
\* scenario; no step goes back to an earlier action, or to an earlier
\* attempt of the same action.
C34_Terminates ==
    /\ [](/\ attempt <= config.retry_attempts
          /\ idx <= MaxActions
          /\ scenario # NoScenario => idx <= Len(ActionsOf(scenario)))
    /\ [][/\ idx' >= idx
          /\ (pc = "attempt" /\ pc' = "attempt") =>
                idx' = idx /\ attempt' = attempt + 1
          /\ Len(log') >= Len(log)]_vars
    /\ <>(pc = "done" /\ ~raised /\ returned.generated)

C34_Witness ==
    /\ pc = "done"
    /\ returned.generated
    /\ config.retry_attempts = 2
    /\ Len(action_results) = 2
    /\ Cardinality(Positions("dispatch")) = 4
    /\ Cardinality(Positions("backoff")) = 2

\* C35: with stop_on_error on, in one replay on a fresh engine every result
\* but the last has status SUCCESS, at every moment and in the report
\* returned: a result that is not SUCCESS is the last of action_results,
\* and the report counts at most one failed action.
C35_OnlyLastMayFail ==
    config.stop_on_error =>
        /\ \A k \in 1..(Len(action_results) - 1) :
              action_results[k].status = "SUCCESS"
        /\ (pc = "done" /\ returned.generated) =>
              /\ returned.execution.failed_actions <= 1
              /\ Len(returned.failed_actions) = returned.execution.failed_actions
              /\ \A k \in 1..Len(returned.action_results) :
                    returned.action_results[k].status # "success"
                        => k = Len(returned.action_results)

C35_Witness ==
    /\ pc = "done"
    /\ config.stop_on_error
    /\ Len(returned.action_results) = 2
    /\ returned.action_results[1].status = "success"
    /\ returned.action_results[2].status = "failed"
    /\ returned.execution.failed_actions = 1

\* C36: a report returned by generate() is a snapshot. generate() leaves
\* the accumulated results and global errors as they are; a second
\* generate() right after the first returns an equal report; and a later
\* add_action_result or add_global_error leaves a report that was already
\* returned as it was.
C36_ReportIsSnapshot ==
    [][/\ Generate =>
            /\ action_results' = action_results
            /\ global_errors' = global_errors
       /\ (Generate /\ pc = "generated") => returned' = returned
       /\ (returned.generated /\ (AddActionResult \/ AddGlobalError)) =>
            returned' = returned]_vars

(***************************************************************************)
(* C37: every scenario file written by stop_recording is accepted by       *)
(* load_scenario as a new-shape scenario: the file has the keys of the new *)
(* shape, load_scenario returns, the scenario carries the schema version,  *)
(* its session name is the session id of the recording, and its actions    *)
(* are the recorded tool calls, one for one in the same order with the     *)
(* same tool names and parameters.                                         *)
(***************************************************************************)
C37_RecordReplayRoundTrip ==
    (reply.call = "stop_recording" /\ reply.written.exists) =>
        LET loaded == load_scenario(reply.written)
            recorded == recording_state.actions
        IN  /\ {"schema_version", "metadata"} \subseteq
                   DOMAIN reply.written.document
            /\ ~loaded.raised
            /\ loaded.value.schema_version = "1.0"
            /\ loaded.value.session_name = recording_state.session_name
            /\ loaded.value.actions.is_list
            /\ Len(loaded.value.actions.items) = Len(recorded)
            /\ \A k \in 1..Len(recorded) :
                 /\ loaded.value.actions.items[k].tool = recorded[k].tool
                 /\ loaded.value.actions.items[k].params = recorded[k].params

\* a recording of two tool calls has been written and loads
C37_Witness ==
    /\ reply.call = "stop_recording"
    /\ reply.written.exists
    /\ Len(recording_state.actions) = MaxRecorded
    /\ ~load_scenario(reply.written).raised
    /\ Len(load_scenario(reply.written).value.actions.items) = MaxRecorded

====
